---- MODULE Spec2Model ----
(***************************************************************************)
(* Model of the k0rdent istio-operator: the ClusterDeployment reconciler,  *)
(* the remote-secret, certificate and propagation managers and the secret  *)
(* rotation cycle, over a hub object store and the target clusters.        *)
(*                                                                         *)
(* Strings that the code concatenates or hashes are sequences of byte      *)
(* codes; every other string is an uninterpreted TLA+ string.              *)
(***************************************************************************)
EXTENDS Integers, Sequences, FiniteSets, TLC

VARIABLES hub, target, queue, rec, rot, last, prev

vars == <<hub, target, queue, rec, rot, last, prev>>

\* ------------------------------------------------------------------ bounds

\* Tokens a target cluster issues within one behaviour.
MaxTokens == 2

\* ------------------------------------------------------------ byte strings

Dash == <<45>>
Str_ns1 == <<110, 115, 49>>
Str_c1 == <<99, 49>>
Str_c2 == <<99, 50>>
Str_CA == <<32, 67, 65>>
Str_dash_ca == <<45, 99, 97>>
Str_dash_root == <<45, 114, 111, 111, 116>>
Str_dash_kubeconfig == <<45, 107, 117, 98, 101, 99, 111, 110, 102, 105, 103>>

\* "k0rdent-istio"
IstioReleaseName == <<107, 48, 114, 100, 101, 110, 116, 45, 105, 115, 116, 105, 111>>

IstioSystemNamespace == "istio-system"
DefaultKCMSystemNamespace == "kcm-system"
IstioRoleLabelExpectedValues == {"member", "child"}

\* ------------------------------------------------------------------ naming

RECURSIVE Xor(_, _)
Xor(a, b) ==
    IF a = 0 THEN b
    ELSE IF b = 0 THEN a
    ELSE (((a % 2) + (b % 2)) % 2) + (2 * Xor(a \div 2, b \div 2))

\* The FNV-1a offset basis 0x811C9DC5 and prime 0x01000193, as 16-bit limbs.
FnvOffsetHi == 33052
FnvOffsetLo == 40389
FnvPrimeHi == 256
FnvPrimeLo == 403

\* One byte of hash/fnv New32a: h = (h XOR b) * prime mod 2^32, h = <<hi, lo>>.
FnvStep(h, b) ==
    LET lo == (h[2] - (h[2] % 256)) + Xor(h[2] % 256, b)
        p == lo * FnvPrimeLo
    IN  << ((h[1] * FnvPrimeLo) + (lo * FnvPrimeHi) + (p \div 65536)) % 65536, p % 65536 >>

RECURSIVE FnvFrom(_, _, _)
FnvFrom(h, s, i) == IF i > Len(s) THEN h ELSE FnvFrom(FnvStep(h, s[i]), s, i + 1)

New32a(s) == FnvFrom(<<FnvOffsetHi, FnvOffsetLo>>, s, 1)

\* The strings the identities of the model give rise to, hashed once.
Str_ns1_c1 == <<110, 115, 49, 45, 99, 49>>
Str_ns1_c2 == <<110, 115, 49, 45, 99, 50>>
HashedOnce ==
    [ s \in { Str_ns1_c1, Str_ns1_c2,
               IstioReleaseName \o Dash \o Str_ns1_c1 \o Str_dash_ca,
               IstioReleaseName \o Dash \o Str_ns1_c2 \o Str_dash_ca } |-> New32a(s) ]

Sum32(s) == IF s \in DOMAIN HashedOnce THEN HashedOnce[s] ELSE New32a(s)

GetNameHash(prefix, name) == [prefix |-> prefix, hash |-> Sum32(name)]

GetRemoteSecretName(clusterName, namespace) ==
    GetNameHash("istio-remote-secret", namespace \o Dash \o clusterName)

GetCertName(clusterName, namespace) ==
    IstioReleaseName \o Dash \o namespace \o Dash \o clusterName \o Str_dash_ca

GetCertNameHash(clusterName, namespace) ==
    GetNameHash("ca-cert-propagation", GetCertName(clusterName, namespace))

\* A derivation that joins the cluster name and the namespace the other way round.
GetMultiClusterServiceName_Swapped(clusterName, namespace) ==
    GetNameHash("remote-secret-propagation", clusterName \o Dash \o namespace)

GetMultiClusterServiceName(clusterName, namespace) ==
    GetNameHash("remote-secret-propagation", namespace \o Dash \o clusterName)

GetCloudClusterSecretName(name) == name \o Str_dash_kubeconfig

\* The verb %x of fmt.Sprintf for a 32-bit value <<hi, lo>>: its digits in base
\* 16, lower case, without leading zeros.
RECURSIVE HexDigits(_)
HexDigits(n) ==
    LET c == IF n % 16 < 10 THEN 48 + (n % 16) ELSE 87 + (n % 16)
    IN  IF n < 16 THEN <<c>> ELSE Append(HexDigits(n \div 16), c)

Hex32(h) ==
    IF h[1] = 0 THEN HexDigits(h[2])
    ELSE HexDigits(h[1]) \o SubSeq(HexDigits(65536 + h[2]), 2, 5)

\* The string GetNameHash returns, "%s-%x" of the prefix and the sum.
NameString(n) == [prefix |-> n.prefix, dash |-> Dash, hex |-> Hex32(n.hash)]

\* -------------------------------------------------------------- identities

Absent == [kind |-> "absent"]
NoToken == 0
NoKubeconfig == "none"
NoLabel == "nolabel"

\* The ClusterDeployment identities (namespace, name) the model draws from.
ID1 == [namespace |-> Str_ns1, name |-> Str_c1]
ID2 == [namespace |-> Str_ns1, name |-> Str_c2]
IDS == {ID1, ID2}

\* Derived names, computed once per identity.
SecretNameOf == [i \in IDS |-> GetRemoteSecretName(i.name, i.namespace)]
CertNameOf == [i \in IDS |-> GetCertName(i.name, i.namespace)]
CaMcsNameOf == [i \in IDS |-> GetCertNameHash(i.name, i.namespace)]
RsMcsNameOf == [i \in IDS |-> GetMultiClusterServiceName(i.name, i.namespace)]
KubeconfigNameOf == [i \in IDS |-> GetCloudClusterSecretName(i.name)]

SecretNames == {SecretNameOf[i] : i \in IDS}
CertNames == {CertNameOf[i] : i \in IDS}
McsNames == {CaMcsNameOf[i] : i \in IDS} \cup {RsMcsNameOf[i] : i \in IDS}
KubeconfigNames == {KubeconfigNameOf[i] : i \in IDS}

\* ------------------------------------------------------------------ objects

\* "adopted-" and two template names, "adopted-t" and "aws-t".
Str_adopted_prefix == <<97, 100, 111, 112, 116, 101, 100, 45>>
Str_adopted_t == <<97, 100, 111, 112, 116, 101, 100, 45, 116>>
Str_aws_t == <<97, 119, 115, 45, 116>>

HasPrefix(s, prefix) ==
    /\ Len(s) >= Len(prefix)
    /\ \A k \in 1..Len(prefix) : s[k] = prefix[k]

IsAdopted(cd) == HasPrefix(cd.template, Str_adopted_prefix)

\* The condition lists a ClusterDeployment status is drawn from; the code reads
\* the type of a condition and never its status.
CondReady == [type |-> "Ready", status |-> "True"]
CondReadyFalse == [type |-> "Ready", status |-> "False"]
CondCAPI == [type |-> "CAPIClusterSummary", status |-> "True"]
CondLists == { <<>>, <<CondReady>>, <<CondReadyFalse, CondCAPI>> }

RECURSIVE ReadyFrom(_, _, _)
ReadyFrom(cd, k, readiness) ==
    IF k > Len(cd.conditions) THEN readiness
    ELSE ReadyFrom(cd, k + 1,
            IF IsAdopted(cd)
            THEN (IF cd.conditions[k].type = "Ready" THEN TRUE ELSE readiness)
            ELSE (IF cd.conditions[k].type = "CAPIClusterSummary" THEN TRUE ELSE readiness))

IsClusterDeploymentReady(cd) == ReadyFrom(cd, 1, FALSE)

NoMesh == "nomesh"
IsInMesh(cd) == cd.mesh # NoMesh

\* Credential objects of the hub, by (namespace, name): the region they name.
\* "cred-primary" names no region, "cred-region" names region "r1", which has a
\* kubeconfig, and "cred-bare" names region "r2", which has none.
Credentials ==
    [ c \in {"cred-primary", "cred-region", "cred-bare"} |->
        [namespace |-> DefaultKCMSystemNamespace,
         region |-> CASE c = "cred-primary" -> ""
                      [] c = "cred-region" -> "r1"
                      [] OTHER -> "r2"] ]

\* Region objects of the hub: whether the Region names a kubeconfig secret.
Regions == [ r \in {"r1", "r2"} |-> [kubeConfig |-> (r = "r1")] ]

\* The shapes a ClusterDeployment is created or updated with: a plain member of
\* either template, ready or not; a ready member of a mesh under every credential;
\* a member of a mesh in a region that is not ready; and the other role values.
CDShapes ==
    [ role : {"member"}, template : {Str_adopted_t}, conditions : {<<>>, <<CondReady>>},
      mesh : {NoMesh}, credential : {"cred-primary"} ]
    \cup
    [ role : {"member"}, template : {Str_aws_t},
      conditions : {<<>>, <<CondReadyFalse, CondCAPI>>},
      mesh : {NoMesh}, credential : {"cred-primary"} ]
    \cup
    [ role : {"member"}, template : {Str_aws_t}, conditions : {<<CondReadyFalse, CondCAPI>>},
      mesh : {"m1"}, credential : DOMAIN Credentials ]
    \cup
    [ role : {"member"}, template : {Str_aws_t}, conditions : {<<CondReadyFalse>>},
      mesh : {"m1"}, credential : {"cred-region"} ]
    \cup
    [ role : {"child", "other"}, template : {Str_aws_t},
      conditions : {<<CondReadyFalse, CondCAPI>>},
      mesh : {NoMesh}, credential : {"cred-primary"} ]

CDObject(i, shape) ==
    [ name |-> i.name, namespace |-> i.namespace, role |-> shape.role,
      template |-> shape.template, conditions |-> shape.conditions,
      mesh |-> shape.mesh, credential |-> shape.credential ]

\* A filter that lets the events of every labelled object through.
EventFilter_AnyRole(cd) == cd.role # ""

\* The event filter of the controller: the predicate on an object's labels.
EventFilter(cd) == cd.role \in IstioRoleLabelExpectedValues


\* ----------------------------------------------------------------- processes

\* A running handler: its program point (the next call it makes on the hub or on
\* a target cluster), its locals, and what it has done so far.
NewProc(op, id) ==
    [ pc |-> "start", op |-> op, id |-> id, cd |-> Absent, overwrite |-> FALSE,
      path |-> "none", mgr |-> "none", ret |-> "nil", result |-> "running",
      calls |-> <<>>, rets |-> <<>>, writes |-> <<>>, events |-> <<>>, failedAt |-> <<>>,
      regionName |-> "", token |-> 0, tokenSecretExists |-> FALSE,
      todo |-> <<>>, total |-> 0, success |-> 0,
      ctx |-> "live", had |-> {} ]

Idle == [NewProc("none", ID1) EXCEPT !.pc = "idle", !.result = "none"]

\* What is kept of the handler that ran before the last one.
Summary(p) == [op |-> p.op, id |-> p.id, path |-> p.path, ok |-> p.result = "nil"]

PW(p, w) == [p |-> p, w |-> w]

TargetOf(cd) == [namespace |-> cd.namespace, name |-> cd.name]

\* The identity the handler is working on.
CurId(p) == IF p.cd = Absent THEN p.id ELSE TargetOf(p.cd)

\* A manager returns err to its caller ("nil" is success).
Ret(p, w, err) ==
    PW([p EXCEPT !.pc = "ret", !.ret = err,
                 !.rets = Append(@, [mgr |-> p.mgr, id |-> CurId(p), ret |-> err])], w)

Wrote(p, verb, kind, name) ==
    [p EXCEPT !.writes = Append(@, [verb |-> verb, kind |-> kind, name |-> name])]

Eventf(p, reason, name) ==
    [p EXCEPT !.events = Append(@, [type |-> "Normal", reason |-> reason,
                                     key |-> "", name |-> name])]

\* utils.LogEvent with a non-nil err: one Warning event.
LogEvent(p, reason, key, name) ==
    [p EXCEPT !.events = Append(@, [type |-> "Warning", reason |-> reason,
                                     key |-> key, name |-> name])]

\* ------------------------------------------------- remote secret manager

\* k8s.CreatedInKCMRegion: the Credential kcm-system/<cd.Spec.Credential>.
CreatedInKCMRegion(cd) ==
    IF cd.credential \in DOMAIN Credentials
          /\ Credentials[cd.credential].namespace = DefaultKCMSystemNamespace
    THEN [err |-> "nil", region |-> Credentials[cd.credential].region # ""]
    ELSE [err |-> "notfound", region |-> FALSE]

\* k8s.GetKcmRegionClusterNameRelatedToClusterDeployment: the region of the
\* listed Credential of that name, "" when none has it.
GetKcmRegionClusterNameRelatedToClusterDeployment(cd) ==
    IF cd.credential \in DOMAIN Credentials
    THEN Credentials[cd.credential].region
    ELSE ""

\* The secret the builder returns: named by GetRemoteSecretName, one data key,
\* the cluster name, holding the kubeconfig built around the token.
BuiltSecret(cd, token) ==
    [ name |-> GetRemoteSecretName(cd.name, cd.namespace),
      namespace |-> IstioSystemNamespace,
      data |-> (cd.name :> [token |-> token, cluster |-> cd.name]) ]

\* A builder that skips a not-ready cluster only when it may not overwrite.
RemoteSecretManager_TryCreate_GateUnlessOverwrite(p, w) ==
    LET q == [p EXCEPT !.mgr = "RemoteSecretManager.TryCreate",
                       !.calls = Append(@, "RemoteSecretManager.TryCreate")]
    IN  IF ~IsClusterDeploymentReady(q.cd) /\ ~q.overwrite THEN Ret(q, w, "nil")
        ELSE IF ~q.overwrite THEN PW([q EXCEPT !.pc = "rs_exists"], w)
        ELSE PW([q EXCEPT !.pc = "rs_region"], w)

\* A builder that never asks whether the remote secret exists.
RemoteSecretManager_TryCreate_NoExistsCheck(p, w) ==
    LET q == [p EXCEPT !.mgr = "RemoteSecretManager.TryCreate",
                       !.calls = Append(@, "RemoteSecretManager.TryCreate")]
    IN  IF ~IsClusterDeploymentReady(q.cd) THEN Ret(q, w, "nil")
        ELSE PW([q EXCEPT !.pc = "rs_region"], w)

\* RemoteSecretManager.TryCreate up to its first call.
RemoteSecretManager_TryCreate(p, w) ==
    LET q == [p EXCEPT !.mgr = "RemoteSecretManager.TryCreate",
                       !.calls = Append(@, "RemoteSecretManager.TryCreate")]
    IN  IF ~IsClusterDeploymentReady(q.cd) THEN Ret(q, w, "nil")
        ELSE IF ~q.overwrite THEN PW([q EXCEPT !.pc = "rs_exists"], w)
        ELSE PW([q EXCEPT !.pc = "rs_region"], w)

\* Lookups that turn to the hub when the region has no kubeconfig.
RemoteSecretManager_Lookups_PrimaryFallback(p, w, fail) ==
    LET cd == p.cd
        n == GetRemoteSecretName(cd.name, cd.namespace)
        kc == GetCloudClusterSecretName(cd.name)
    IN  CASE p.pc = "rs_exists" ->
               IF fail THEN Ret(p, w, "failed to check remote secret")
               ELSE IF w.hub.secret[n] # Absent THEN Ret(p, w, "nil")
               ELSE PW([p EXCEPT !.pc = "rs_region"], w)
          [] p.pc = "rs_region" ->
               LET r == CreatedInKCMRegion(cd)
               IN  IF fail \/ r.err # "nil"
                   THEN Ret(p, w, "failed to determine cluster region")
                   ELSE IF r.region THEN PW([p EXCEPT !.pc = "rs_regionname"], w)
                   ELSE PW([p EXCEPT !.pc = "rs_kubeconfig"], w)
          [] p.pc = "rs_regionname" ->
               IF fail THEN Ret(p, w, "failed to get cluster region")
               ELSE LET rn == GetKcmRegionClusterNameRelatedToClusterDeployment(cd)
                    IN  IF rn = "" THEN Ret(p, w, "failed to get kubeconfig by region name")
                        ELSE PW([p EXCEPT !.pc = "rs_regionobj", !.regionName = rn], w)
          [] p.pc = "rs_regionobj" ->
               IF fail \/ p.regionName \notin DOMAIN Regions
               THEN Ret(p, w, "failed to get kubeconfig by region name")
               ELSE IF ~Regions[p.regionName].kubeConfig
               THEN PW([p EXCEPT !.pc = "rs_kubeconfig"], w)
               ELSE PW([p EXCEPT !.pc = "rs_regionkc"], w)
          [] p.pc = "rs_regionkc" ->
               IF fail THEN Ret(p, w, "failed to get kubeconfig by region name")
               ELSE PW([p EXCEPT !.pc = "rs_regionsecret"], w)
          [] p.pc = "rs_regionsecret" ->
               IF fail \/ w.hub.kubeconfig[kc] # "region"
               THEN Ret(p, w, "failed to get kubeconfig from secret")
               ELSE PW([p EXCEPT !.pc = "b_sa"], w)
          [] p.pc = "rs_kubeconfig" ->
               IF fail \/ w.hub.kubeconfig[kc] # "hub"
               THEN Ret(p, w, "failed to get kubeconfig from secret")
               ELSE PW([p EXCEPT !.pc = "b_sa"], w)

\* remoteSecretExists, then the region lookups and the kubeconfig fetch.
RemoteSecretManager_Lookups(p, w, fail) ==
    LET cd == p.cd
        n == GetRemoteSecretName(cd.name, cd.namespace)
        kc == GetCloudClusterSecretName(cd.name)
    IN  CASE p.pc = "rs_exists" ->
               IF fail THEN Ret(p, w, "failed to check remote secret")
               ELSE IF w.hub.secret[n] # Absent THEN Ret(p, w, "nil")
               ELSE PW([p EXCEPT !.pc = "rs_region"], w)
          [] p.pc = "rs_region" ->
               LET r == CreatedInKCMRegion(cd)
               IN  IF fail \/ r.err # "nil"
                   THEN Ret(p, w, "failed to determine cluster region")
                   ELSE IF r.region THEN PW([p EXCEPT !.pc = "rs_regionname"], w)
                   ELSE PW([p EXCEPT !.pc = "rs_kubeconfig"], w)
          [] p.pc = "rs_regionname" ->
               IF fail THEN Ret(p, w, "failed to get cluster region")
               ELSE LET rn == GetKcmRegionClusterNameRelatedToClusterDeployment(cd)
                    IN  IF rn = "" THEN Ret(p, w, "failed to get kubeconfig by region name")
                        ELSE PW([p EXCEPT !.pc = "rs_regionobj", !.regionName = rn], w)
          [] p.pc = "rs_regionobj" ->
               IF fail \/ p.regionName \notin DOMAIN Regions
               THEN Ret(p, w, "failed to get kubeconfig by region name")
               ELSE IF ~Regions[p.regionName].kubeConfig
               THEN Ret(p, w, "no kubeconfig found for region cluster name")
               ELSE PW([p EXCEPT !.pc = "rs_regionkc"], w)
          [] p.pc = "rs_regionkc" ->
               IF fail THEN Ret(p, w, "failed to get kubeconfig by region name")
               ELSE PW([p EXCEPT !.pc = "rs_regionsecret"], w)
          [] p.pc = "rs_regionsecret" ->
               IF fail \/ w.hub.kubeconfig[kc] # "region"
               THEN Ret(p, w, "failed to get kubeconfig from secret")
               ELSE PW([p EXCEPT !.pc = "b_sa"], w)
          [] p.pc = "rs_kubeconfig" ->
               IF fail \/ w.hub.kubeconfig[kc] # "hub"
               THEN Ret(p, w, "failed to get kubeconfig from secret")
               ELSE PW([p EXCEPT !.pc = "b_sa"], w)


\* A builder that requests a new token whether or not it may overwrite.
CreateRemoteSecret_AlwaysNewToken(p, w, fail) ==
    LET t == TargetOf(p.cd)
        tgt == w.target[t]
    IN  CASE p.pc = "b_sa" ->
               IF fail THEN Ret(p, w, "failed to get ServiceAccount")
               ELSE IF ~tgt.sa THEN Ret(p, w, "service account not found")
               ELSE PW([p EXCEPT !.pc = "b_tokget"], w)
          [] p.pc = "b_tokget" ->
               IF fail THEN Ret(p, w, "failed to get existing secret")
               ELSE PW([p EXCEPT !.pc = "b_token",
                                 !.tokenSecretExists = (tgt.tokenSecret # NoToken)], w)
          [] p.pc = "b_token" ->
               IF fail THEN Ret(p, w, "failed to get service account token")
               ELSE PW([p EXCEPT !.token = tgt.issued + 1,
                                 !.pc = IF p.tokenSecretExists
                                        THEN "b_tokupdate" ELSE "b_tokcreate"],
                       [w EXCEPT !.target[t].issued = @ + 1])
          [] p.pc = "b_tokupdate" ->
               IF fail \/ tgt.tokenSecret = NoToken
               THEN Ret(p, w, "failed to update existing secret")
               ELSE PW([Wrote(p, "update", "TokenSecret", t) EXCEPT !.pc = "rs_delete"],
                       [w EXCEPT !.target[t].tokenSecret = p.token])
          [] p.pc = "b_tokcreate" ->
               IF fail \/ tgt.tokenSecret # NoToken
               THEN Ret(p, w, "failed to create remote secret")
               ELSE PW([Wrote(p, "create", "TokenSecret", t) EXCEPT !.pc = "rs_delete"],
                       [w EXCEPT !.target[t].tokenSecret = p.token])

\* A builder that creates the service account it does not find.
CreateRemoteSecret_CreatesServiceAccount(p, w, fail) ==
    LET t == TargetOf(p.cd)
        tgt == w.target[t]
    IN  CASE p.pc = "b_sa" ->
               IF fail THEN Ret(p, w, "failed to get ServiceAccount")
               ELSE PW([p EXCEPT !.pc = "b_tokget"], [w EXCEPT !.target[t].sa = TRUE])
          [] p.pc = "b_tokget" ->
               IF fail THEN Ret(p, w, "failed to get existing secret")
               ELSE IF ~p.overwrite /\ tgt.tokenSecret # NoToken
               THEN PW([p EXCEPT !.pc = "rs_delete", !.token = tgt.tokenSecret], w)
               ELSE PW([p EXCEPT !.pc = "b_token",
                                 !.tokenSecretExists = (tgt.tokenSecret # NoToken)], w)
          [] p.pc = "b_token" ->
               IF fail THEN Ret(p, w, "failed to get service account token")
               ELSE PW([p EXCEPT !.token = tgt.issued + 1,
                                 !.pc = IF p.overwrite /\ p.tokenSecretExists
                                        THEN "b_tokupdate" ELSE "b_tokcreate"],
                       [w EXCEPT !.target[t].issued = @ + 1])
          [] p.pc = "b_tokupdate" ->
               IF fail \/ tgt.tokenSecret = NoToken
               THEN Ret(p, w, "failed to update existing secret")
               ELSE PW([Wrote(p, "update", "TokenSecret", t) EXCEPT !.pc = "rs_delete"],
                       [w EXCEPT !.target[t].tokenSecret = p.token])
          [] p.pc = "b_tokcreate" ->
               IF fail \/ tgt.tokenSecret # NoToken
               THEN Ret(p, w, "failed to create remote secret")
               ELSE PW([Wrote(p, "create", "TokenSecret", t) EXCEPT !.pc = "rs_delete"],
                       [w EXCEPT !.target[t].tokenSecret = p.token])

\* CreateRemoteSecret on the target cluster (bearer token, current token path):
\* getOrCreateServiceAccount, getOrCreateServiceAccountSecret, then the secret
\* built from the token.
CreateRemoteSecret(p, w, fail) ==
    LET t == TargetOf(p.cd)
        tgt == w.target[t]
    IN  CASE p.pc = "b_sa" ->
               IF fail THEN Ret(p, w, "failed to get ServiceAccount")
               ELSE IF ~tgt.sa THEN Ret(p, w, "service account not found")
               ELSE PW([p EXCEPT !.pc = "b_tokget"], w)
          [] p.pc = "b_tokget" ->
               IF fail THEN Ret(p, w, "failed to get existing secret")
               ELSE IF ~p.overwrite /\ tgt.tokenSecret # NoToken
               THEN PW([p EXCEPT !.pc = "rs_delete", !.token = tgt.tokenSecret], w)
               ELSE PW([p EXCEPT !.pc = "b_token",
                                 !.tokenSecretExists = (tgt.tokenSecret # NoToken)], w)
          [] p.pc = "b_token" ->
               IF fail THEN Ret(p, w, "failed to get service account token")
               ELSE PW([p EXCEPT !.token = tgt.issued + 1,
                                 !.pc = IF p.overwrite /\ p.tokenSecretExists
                                        THEN "b_tokupdate" ELSE "b_tokcreate"],
                       [w EXCEPT !.target[t].issued = @ + 1])
          [] p.pc = "b_tokupdate" ->
               IF fail \/ tgt.tokenSecret = NoToken
               THEN Ret(p, w, "failed to update existing secret")
               ELSE PW([Wrote(p, "update", "TokenSecret", t) EXCEPT !.pc = "rs_delete"],
                       [w EXCEPT !.target[t].tokenSecret = p.token])
          [] p.pc = "b_tokcreate" ->
               IF fail \/ tgt.tokenSecret # NoToken
               THEN Ret(p, w, "failed to create remote secret")
               ELSE PW([Wrote(p, "create", "TokenSecret", t) EXCEPT !.pc = "rs_delete"],
                       [w EXCEPT !.target[t].tokenSecret = p.token])

\* A createSecretResource that only creates, taking "already exists" for success.
createSecretResource_CreateOnly(p, w, fail) ==
    LET secret == BuiltSecret(p.cd, p.token)
        n == secret.name
    IN  CASE p.pc = "rs_delete" ->
               PW([p EXCEPT !.pc = "rs_create"], w)
          [] p.pc = "rs_create" ->
               IF fail THEN Ret(p, w, "failed to create remote secret")
               ELSE IF w.hub.secret[n] # Absent
               THEN Ret(Eventf(p, "SecretCreated",
                               GetRemoteSecretName(p.cd.name, p.cd.namespace)), w, "nil")
               ELSE Ret(Eventf(Wrote(p, "create", "Secret", n), "SecretCreated",
                               GetRemoteSecretName(p.cd.name, p.cd.namespace)),
                        [w EXCEPT !.hub.secret[n] = [data |-> secret.data]], "nil")

\* A createSecretResource that deletes the secret and never creates it.
createSecretResource_DeleteOnly(p, w, fail) ==
    LET n == BuiltSecret(p.cd, p.token).name
    IN  CASE p.pc = "rs_delete" ->
               IF fail THEN Ret(p, w, "failed to create remote secret")
               ELSE IF w.hub.secret[n] = Absent THEN PW([p EXCEPT !.pc = "rs_create"], w)
               ELSE PW([Wrote(p, "delete", "Secret", n) EXCEPT !.pc = "rs_create"],
                       [w EXCEPT !.hub.secret[n] = Absent])
          [] p.pc = "rs_create" ->
               IF fail THEN Ret(p, w, "failed to create remote secret")
               ELSE Ret(p, w, "nil")

\* createSecretResource: delete the secret, tolerating its absence, then create it.
createSecretResource(p, w, fail) ==
    LET secret == BuiltSecret(p.cd, p.token)
        n == secret.name
    IN  CASE p.pc = "rs_delete" ->
               IF fail THEN Ret(p, w, "failed to create remote secret")
               ELSE IF w.hub.secret[n] = Absent THEN PW([p EXCEPT !.pc = "rs_create"], w)
               ELSE PW([Wrote(p, "delete", "Secret", n) EXCEPT !.pc = "rs_create"],
                       [w EXCEPT !.hub.secret[n] = Absent])
          [] p.pc = "rs_create" ->
               IF fail \/ w.hub.secret[n] # Absent
               THEN Ret(p, w, "failed to create remote secret")
               ELSE Ret(Eventf(Wrote(p, "create", "Secret", n), "SecretCreated",
                               GetRemoteSecretName(p.cd.name, p.cd.namespace)),
                        [w EXCEPT !.hub.secret[n] = [data |-> secret.data]], "nil")

\* A TryDelete for which a secret that is not found is an error.
RemoteSecretManager_TryDelete_Strict(p, w, fail) ==
    LET n == GetRemoteSecretName(p.id.name, p.id.namespace)
    IN  IF fail \/ w.hub.secret[n] = Absent THEN Ret(p, w, "failed to delete remote secret")
        ELSE Ret(Eventf(Wrote(p, "delete", "Secret", n), "SecretDeleted", n),
                 [w EXCEPT !.hub.secret[n] = Absent], "nil")

\* RemoteSecretManager.TryDelete(request).
RemoteSecretManager_TryDelete(p, w, fail) ==
    LET n == GetRemoteSecretName(p.id.name, p.id.namespace)
    IN  IF fail THEN Ret(p, w, "failed to delete remote secret")
        ELSE IF w.hub.secret[n] = Absent THEN Ret(p, w, "nil")
        ELSE Ret(Eventf(Wrote(p, "delete", "Secret", n), "SecretDeleted", n),
                 [w EXCEPT !.hub.secret[n] = Absent], "nil")


\* ------------------------------------------------------ certificate manager

IstioRoleLabel == "k0rdent.mirantis.com/istio-role"
IstioMeshLabel == "k0rdent.mirantis.com/istio-mesh"
RegionClusterLabel == "k0rdent.mirantis.com/kcm-region-cluster"
ECDSAKeySize == 521

\* A certificate whose common name is the bare cluster name.
generateClusterCACertificate_BareName(cd) ==
    [ name |-> GetCertName(cd.name, cd.namespace),
      namespace |-> IstioSystemNamespace,
      isCA |-> TRUE,
      commonName |-> cd.name,
      keySize |-> ECDSAKeySize,
      secretName |-> GetCertName(cd.name, cd.namespace),
      issuer |-> IstioReleaseName \o Str_dash_root ]

generateClusterCACertificate(cd) ==
    [ name |-> GetCertName(cd.name, cd.namespace),
      namespace |-> IstioSystemNamespace,
      isCA |-> TRUE,
      commonName |-> cd.name \o Str_CA,
      keySize |-> ECDSAKeySize,
      secretName |-> GetCertName(cd.name, cd.namespace),
      issuer |-> IstioReleaseName \o Str_dash_root ]

\* A CA descriptor that selects the region clusters of every mesh.
CaMultiClusterService_RegionOnly(cd) ==
    [ name |-> GetCertNameHash(cd.name, cd.namespace),
      clusterName |-> cd.name, clusterNamespace |-> cd.namespace,
      selector |-> (RegionClusterLabel :> "true"),
      ref |-> [ kind |-> "Secret", name |-> GetCertName(cd.name, cd.namespace),
               namespace |-> IstioSystemNamespace ] ]

\* The MultiClusterService createCaMultiClusterService builds.
CaMultiClusterService(cd) ==
    [ name |-> GetCertNameHash(cd.name, cd.namespace),
      clusterName |-> cd.name, clusterNamespace |-> cd.namespace,
      selector |-> (IstioMeshLabel :> cd.mesh) @@ (RegionClusterLabel :> "true"),
      ref |-> [ kind |-> "Secret", name |-> GetCertName(cd.name, cd.namespace),
               namespace |-> IstioSystemNamespace ] ]

\* A CertManager.TryCreate that propagates the CA of a cluster that is not ready.
CertManager_TryCreate_Ungated(p, w, fail) ==
    LET cd == p.cd
        cert == generateClusterCACertificate(cd)
        mcs == CaMultiClusterService(cd)
    IN  CASE p.pc = "cert_create" ->
               IF fail THEN Ret(p, w, "failed to create istio certificate")
               ELSE LET created == w.hub.cert[cert.name] = Absent
                        q == IF created
                             THEN Eventf(Wrote(p, "create", "Certificate", cert.name),
                                         "CertificateCreated", GetCertName(cd.name, cd.namespace))
                             ELSE p
                        v == IF created THEN [w EXCEPT !.hub.cert[cert.name] = cert] ELSE w
                    IN  IF ~IsInMesh(cd) THEN Ret(q, v, "nil")
                        ELSE PW([q EXCEPT !.pc = "cert_region"], v)
          [] p.pc = "cert_region" ->
               LET r == CreatedInKCMRegion(cd)
               IN  IF fail \/ r.err # "nil"
                   THEN Ret(p, w, "failed to determine cluster region")
                   ELSE IF ~r.region THEN Ret(p, w, "nil")
                   ELSE PW([p EXCEPT !.pc = "cert_mcs"], w)
          [] p.pc = "cert_mcs" ->
               IF fail THEN Ret(p, w, "failed to create MultiClusterService for certificate propagation")
               ELSE IF w.hub.mcs[mcs.name] # Absent THEN Ret(p, w, "nil")
               ELSE Ret(Wrote(p, "create", "MultiClusterService", mcs.name),
                        [w EXCEPT !.hub.mcs[mcs.name] = mcs], "nil")

\* A CertManager.TryCreate whose createCertificate writes the certificate again
\* when it exists, and reports a creation.
CertManager_TryCreate_Replacing(p, w, fail) ==
    LET cd == p.cd
        cert == generateClusterCACertificate(cd)
    IN  IF p.pc = "cert_create" /\ ~fail
        THEN LET q == Eventf(Wrote(p, "create", "Certificate", cert.name),
                             "CertificateCreated", GetCertName(cd.name, cd.namespace))
                 v == [w EXCEPT !.hub.cert[cert.name] = cert]
             IN  IF ~IsClusterDeploymentReady(cd) THEN Ret(q, v, "nil")
                 ELSE IF ~IsInMesh(cd) THEN Ret(q, v, "nil")
                 ELSE PW([q EXCEPT !.pc = "cert_region"], v)
        ELSE CertManager_TryCreate_Ungated(p, w, fail)

\* CertManager.TryCreate: createCertificate, then the propagation of the CA to
\* the region clusters of a ready, mesh-scoped, regional cluster.
CertManager_TryCreate(p, w, fail) ==
    LET cd == p.cd
        cert == generateClusterCACertificate(cd)
        mcs == CaMultiClusterService(cd)
    IN  CASE p.pc = "cert_create" ->
               IF fail THEN Ret(p, w, "failed to create istio certificate")
               ELSE LET created == w.hub.cert[cert.name] = Absent
                        q == IF created
                             THEN Eventf(Wrote(p, "create", "Certificate", cert.name),
                                         "CertificateCreated", GetCertName(cd.name, cd.namespace))
                             ELSE p
                        v == IF created THEN [w EXCEPT !.hub.cert[cert.name] = cert] ELSE w
                    IN  IF ~IsClusterDeploymentReady(cd) THEN Ret(q, v, "nil")
                        ELSE IF ~IsInMesh(cd) THEN Ret(q, v, "nil")
                        ELSE PW([q EXCEPT !.pc = "cert_region"], v)
          [] p.pc = "cert_region" ->
               LET r == CreatedInKCMRegion(cd)
               IN  IF fail \/ r.err # "nil"
                   THEN Ret(p, w, "failed to determine cluster region")
                   ELSE IF ~r.region THEN Ret(p, w, "nil")
                   ELSE PW([p EXCEPT !.pc = "cert_mcs"], w)
          [] p.pc = "cert_mcs" ->
               IF fail THEN Ret(p, w, "failed to create MultiClusterService for certificate propagation")
               ELSE IF w.hub.mcs[mcs.name] # Absent THEN Ret(p, w, "nil")
               ELSE Ret(Wrote(p, "create", "MultiClusterService", mcs.name),
                        [w EXCEPT !.hub.mcs[mcs.name] = mcs], "nil")

\* CertManager.TryDelete(request): the certificate, then the CA propagation.
CertManager_TryDelete(p, w, fail) ==
    LET certName == GetCertName(p.id.name, p.id.namespace)
        mcsName == GetCertNameHash(p.id.name, p.id.namespace)
    IN  CASE p.pc = "del_cert" ->
               IF fail THEN Ret(p, w, "failed to delete istio certificate")
               ELSE IF w.hub.cert[certName] = Absent THEN Ret(p, w, "nil")
               ELSE PW([Wrote(p, "delete", "Certificate", certName) EXCEPT !.pc = "del_camcs"],
                       [w EXCEPT !.hub.cert[certName] = Absent])
          [] p.pc = "del_camcs" ->
               IF fail THEN Ret(p, w, "failed to delete MultiClusterService")
               ELSE IF w.hub.mcs[mcsName] = Absent THEN Ret(p, w, "nil")
               ELSE Ret(Eventf(Wrote(p, "delete", "MultiClusterService", mcsName),
                               "CertificateDeleted", certName),
                        [w EXCEPT !.hub.mcs[mcsName] = Absent], "nil")

\* ------------------------------------------------------ propagation manager

\* A descriptor that selects the clusters carrying the cluster's own role value.
RemoteSecretMultiClusterService_OwnRole(cd) ==
    [ name |-> GetMultiClusterServiceName(cd.name, cd.namespace),
      clusterName |-> cd.name, clusterNamespace |-> cd.namespace,
      selector |-> (IstioRoleLabel :> cd.role),
      ref |-> [ kind |-> "Secret", name |-> GetRemoteSecretName(cd.name, cd.namespace),
               namespace |-> IstioSystemNamespace ] ]

\* A descriptor whose selector also carries the cluster's mesh label.
RemoteSecretMultiClusterService_MeshScoped(cd) ==
    [ name |-> GetMultiClusterServiceName(cd.name, cd.namespace),
      clusterName |-> cd.name, clusterNamespace |-> cd.namespace,
      selector |-> (IstioRoleLabel :> "member") @@ (IstioMeshLabel :> cd.mesh),
      ref |-> [ kind |-> "Secret", name |-> GetRemoteSecretName(cd.name, cd.namespace),
               namespace |-> IstioSystemNamespace ] ]

\* A descriptor that refers to itself instead of the remote secret.
RemoteSecretMultiClusterService_RefersToItself(cd) ==
    [ name |-> GetMultiClusterServiceName(cd.name, cd.namespace),
      clusterName |-> cd.name, clusterNamespace |-> cd.namespace,
      selector |-> (IstioRoleLabel :> "member"),
      ref |-> [ kind |-> "Secret", name |-> GetMultiClusterServiceName(cd.name, cd.namespace),
               namespace |-> IstioSystemNamespace ] ]

\* The MultiClusterService createMultiClusterService builds.
RemoteSecretMultiClusterService(cd) ==
    [ name |-> GetMultiClusterServiceName(cd.name, cd.namespace),
      clusterName |-> cd.name, clusterNamespace |-> cd.namespace,
      selector |-> (IstioRoleLabel :> "member"),
      ref |-> [ kind |-> "Secret", name |-> GetRemoteSecretName(cd.name, cd.namespace),
               namespace |-> IstioSystemNamespace ] ]

\* A propagation manager that creates without looking first.
RemoteSecretPropagationManager_TryCreate_Blind(p, w, fail) ==
    LET mcs == RemoteSecretMultiClusterService(p.cd)
    IN  CASE p.pc = "prop_exists" ->
               IF fail THEN Ret(p, w, "failed to check MultiClusterService existence")
               ELSE PW([p EXCEPT !.pc = "prop_create"], w)
          [] p.pc = "prop_create" ->
               IF fail THEN Ret(p, w, "failed to create MultiClusterService resource")
               ELSE IF w.hub.mcs[mcs.name] # Absent
               THEN Ret(Eventf(p, "MultiClusterServiceCreated", mcs.name), w, "nil")
               ELSE Ret(Eventf(Wrote(p, "create", "MultiClusterService", mcs.name),
                               "MultiClusterServiceCreated", mcs.name),
                        [w EXCEPT !.hub.mcs[mcs.name] = mcs], "nil")

\* A propagation manager that writes the descriptor again when it exists.
RemoteSecretPropagationManager_TryCreate_Overwriting(p, w, fail) ==
    LET mcs == RemoteSecretMultiClusterService(p.cd)
    IN  IF p.pc = "prop_exists" /\ ~fail /\ w.hub.mcs[mcs.name] # Absent
        THEN Ret(Eventf(Wrote(p, "update", "MultiClusterService", mcs.name),
                        "MultiClusterServiceCreated", mcs.name),
                 [w EXCEPT !.hub.mcs[mcs.name] = mcs], "nil")
        ELSE RemoteSecretPropagationManager_TryCreate_Blind(p, w, fail)

\* RemoteSecretPropagationManager.TryCreate: multiClusterServiceExists, then
\* createMultiClusterService and the creation event.
RemoteSecretPropagationManager_TryCreate(p, w, fail) ==
    LET mcs == RemoteSecretMultiClusterService(p.cd)
    IN  CASE p.pc = "prop_exists" ->
               IF fail THEN Ret(p, w, "failed to check MultiClusterService existence")
               ELSE IF w.hub.mcs[mcs.name] # Absent THEN Ret(p, w, "nil")
               ELSE PW([p EXCEPT !.pc = "prop_create"], w)
          [] p.pc = "prop_create" ->
               IF fail THEN Ret(p, w, "failed to create MultiClusterService resource")
               ELSE IF w.hub.mcs[mcs.name] # Absent
               THEN Ret(Eventf(p, "MultiClusterServiceCreated", mcs.name), w, "nil")
               ELSE Ret(Eventf(Wrote(p, "create", "MultiClusterService", mcs.name),
                               "MultiClusterServiceCreated", mcs.name),
                        [w EXCEPT !.hub.mcs[mcs.name] = mcs], "nil")

\* RemoteSecretPropagationManager.TryDelete(request).
RemoteSecretPropagationManager_TryDelete(p, w, fail) ==
    LET n == GetMultiClusterServiceName(p.id.name, p.id.namespace)
    IN  IF fail THEN Ret(p, w, "failed to delete MultiClusterService")
        ELSE IF w.hub.mcs[n] = Absent THEN Ret(p, w, "nil")
        ELSE Ret(Eventf(Wrote(p, "delete", "MultiClusterService", n),
                        "MultiClusterServiceDeleted", n),
                 [w EXCEPT !.hub.mcs[n] = Absent], "nil")


\* ---------------------------------------------------------------- reconciler

Enter(p, mgr, pc) == [p EXCEPT !.mgr = mgr, !.calls = Append(@, mgr), !.pc = pc]

Finish(p, result) == [p EXCEPT !.pc = "done", !.result = result]

\* A Reconcile that takes any failed read of the ClusterDeployment for its absence.
Reconcile_AbsentOnAnyError(p, w, fail) ==
    IF fail \/ w.hub.cd[p.id] = Absent
    THEN PW(Enter([p EXCEPT !.path = "delete"], "RemoteSecretManager.TryDelete", "del_rs"), w)
    ELSE RemoteSecretManager_TryCreate(
             [p EXCEPT !.path = "create", !.cd = w.hub.cd[p.id], !.overwrite = FALSE], w)

\* Reconcile: read the ClusterDeployment; not found is the delete path, any other
\* error is returned, and an object found is the create path.
Reconcile(p, w, fail) ==
    IF fail THEN PW(Finish(p, "cannot read clusterDeployment"), w)
    ELSE IF w.hub.cd[p.id] = Absent
    THEN PW(Enter([p EXCEPT !.path = "delete"], "RemoteSecretManager.TryDelete", "del_rs"), w)
    ELSE RemoteSecretManager_TryCreate(
             [p EXCEPT !.path = "create", !.cd = w.hub.cd[p.id], !.overwrite = FALSE], w)

\* A tryCreateResources that goes on to the certificate after a failed builder.
tryCreateResources_GoOn(p, w) ==
    LET failed == p.ret # "nil"
    IN  CASE p.mgr = "RemoteSecretManager.TryCreate" ->
               IF failed
               THEN PW(Enter(LogEvent(p, "SecretCreationFailed", "remoteSecretName",
                                      GetRemoteSecretName(p.id.name, p.id.namespace)),
                             "CertManager.TryCreate", "cert_create"), w)
               ELSE PW(Enter(p, "CertManager.TryCreate", "cert_create"), w)
          [] p.mgr = "CertManager.TryCreate" ->
               IF failed
               THEN PW(Finish(LogEvent(p, "IstioCertCreationFailed", "certName",
                                       GetCertName(p.id.name, p.id.namespace)), p.ret), w)
               ELSE PW(Enter(p, "RemoteSecretPropagationManager.TryCreate", "prop_exists"), w)
          [] p.mgr = "RemoteSecretPropagationManager.TryCreate" ->
               IF failed
               THEN PW(Finish(LogEvent(p, "MultiClusterServiceCreationFailed",
                                       "multiClusterServiceName",
                                       GetMultiClusterServiceName(p.id.name, p.id.namespace)), p.ret), w)
               ELSE PW(Finish(p, "nil"), w)

\* tryCreateResources, after a manager has returned.
tryCreateResources(p, w) ==
    LET failed == p.ret # "nil"
    IN  CASE p.mgr = "RemoteSecretManager.TryCreate" ->
               IF failed
               THEN PW(Finish(LogEvent(p, "SecretCreationFailed", "remoteSecretName",
                                       GetRemoteSecretName(p.id.name, p.id.namespace)), p.ret), w)
               ELSE PW(Enter(p, "CertManager.TryCreate", "cert_create"), w)
          [] p.mgr = "CertManager.TryCreate" ->
               IF failed
               THEN PW(Finish(LogEvent(p, "IstioCertCreationFailed", "certName",
                                       GetCertName(p.id.name, p.id.namespace)), p.ret), w)
               ELSE PW(Enter(p, "RemoteSecretPropagationManager.TryCreate", "prop_exists"), w)
          [] p.mgr = "RemoteSecretPropagationManager.TryCreate" ->
               IF failed
               THEN PW(Finish(LogEvent(p, "MultiClusterServiceCreationFailed",
                                       "multiClusterServiceName",
                                       GetMultiClusterServiceName(p.id.name, p.id.namespace)), p.ret), w)
               ELSE PW(Finish(p, "nil"), w)

\* tryDeleteResources, after a manager has returned.
tryDeleteResources(p, w) ==
    LET failed == p.ret # "nil"
    IN  CASE p.mgr = "RemoteSecretManager.TryDelete" ->
               IF failed
               THEN PW(Finish(LogEvent(p, "SecretDeletionFailed", "remoteSecretName",
                                       GetRemoteSecretName(p.id.name, p.id.namespace)), p.ret), w)
               ELSE PW(Enter(p, "CertManager.TryDelete", "del_cert"), w)
          [] p.mgr = "CertManager.TryDelete" ->
               IF failed
               THEN PW(Finish(LogEvent(p, "IstioCertDeletionFailed", "certName",
                                       GetCertName(p.id.name, p.id.namespace)), p.ret), w)
               ELSE PW(Enter(p, "RemoteSecretPropagationManager.TryDelete", "del_prop"), w)
          [] p.mgr = "RemoteSecretPropagationManager.TryDelete" ->
               IF failed
               THEN PW(Finish(LogEvent(p, "MultiClusterServiceDeletionFailed",
                                       "multiClusterServiceName",
                                       GetMultiClusterServiceName(p.id.name, p.id.namespace)), p.ret), w)
               ELSE PW(Finish(p, "nil"), w)

\* ------------------------------------------------------------------ rotation

\* The order in which a list of ClusterDeployments is returned.
ListOrder == <<ID1, ID2>>

RECURSIVE ListFrom(_, _)
ListFrom(cds, k) ==
    IF k > Len(ListOrder) THEN <<>>
    ELSE (IF ListOrder[k] \in DOMAIN cds /\ cds[ListOrder[k]] # Absent
          THEN <<cds[ListOrder[k]]>> ELSE <<>>) \o ListFrom(cds, k + 1)

\* getIstioClusters: the ClusterDeployments that carry the istio-role label.
getIstioClusters(w) == ListFrom(w.hub.cd, 1)

\* The body of the loop of rotateSecrets for the next cluster, or the end of the cycle.
rotateNext(p, w) ==
    IF p.todo = <<>> THEN PW(Finish(p, "nil"), w)
    ELSE RemoteSecretManager_TryCreate(
             [p EXCEPT !.cd = Head(p.todo), !.todo = Tail(p.todo), !.overwrite = TRUE], w)

\* A cycle that ends at the first cluster whose builder call fails.
rotateSecrets_StopAtFailure(p, w, fail) ==
    IF p.pc = "rot_list"
    THEN IF fail THEN PW(Finish(p, "failed to list clusters"), w)
         ELSE LET clusters == getIstioClusters(w)
              IN  IF clusters = <<>> THEN PW(Finish(p, "nil"), w)
                  ELSE rotateNext([p EXCEPT !.todo = clusters, !.total = Len(clusters)], w)
    ELSE IF p.ret # "nil" THEN PW(Finish(p, "nil"), w)
    ELSE rotateNext([p EXCEPT !.success = @ + 1], w)

\* rotateSecrets: list the clusters, then TryCreate with AllowOverwrite for each,
\* counting the successes and going on after a failure.
rotateSecrets(p, w, fail) ==
    IF p.pc = "rot_list"
    THEN IF fail THEN PW(Finish(p, "failed to list clusters"), w)
         ELSE LET clusters == getIstioClusters(w)
              IN  IF clusters = <<>> THEN PW(Finish(p, "nil"), w)
                  ELSE rotateNext([p EXCEPT !.todo = clusters, !.total = Len(clusters)], w)
    ELSE rotateNext([p EXCEPT !.success = IF p.ret = "nil" THEN @ + 1 ELSE @], w)

\* ------------------------------------------------------------------- stepping

\* The call at the current program point, made with or without a backend error.
Dispatch(p, w, fail) ==
    CASE p.pc = "rec_get" -> Reconcile(p, w, fail)
      [] p.pc = "rot_list" -> rotateSecrets(p, w, fail)
      [] p.pc \in {"rs_exists", "rs_region", "rs_regionname", "rs_regionobj",
                   "rs_regionkc", "rs_regionsecret", "rs_kubeconfig"} ->
            RemoteSecretManager_Lookups(p, w, fail)
      [] p.pc \in {"b_sa", "b_tokget", "b_token", "b_tokupdate", "b_tokcreate"} ->
            CreateRemoteSecret(p, w, fail)
      [] p.pc \in {"rs_delete", "rs_create"} -> createSecretResource(p, w, fail)
      [] p.pc \in {"cert_create", "cert_region", "cert_mcs"} -> CertManager_TryCreate(p, w, fail)
      [] p.pc \in {"prop_exists", "prop_create"} ->
            RemoteSecretPropagationManager_TryCreate(p, w, fail)
      [] p.pc = "del_rs" -> RemoteSecretManager_TryDelete(p, w, fail)
      [] p.pc \in {"del_cert", "del_camcs"} -> CertManager_TryDelete(p, w, fail)
      [] p.pc = "del_prop" -> RemoteSecretPropagationManager_TryDelete(p, w, fail)

\* The caller's code after a manager has returned.
AfterReturn(p, w) ==
    CASE p.op = "rotate" -> rotateSecrets(p, w, FALSE)
      [] p.op = "reconcile" /\ p.path = "create" -> tryCreateResources(p, w)
      [] p.op = "reconcile" /\ p.path = "delete" -> tryDeleteResources(p, w)

RECURSIVE Continue(_)
Continue(pw) == IF pw.p.pc = "ret" THEN Continue(AfterReturn(pw.p, pw.w)) ELSE pw

\* One step of a handler: the call at its program point and the local code up
\* to its next call or its end.
Step(p, w, fail) ==
    Continue(Dispatch([p EXCEPT !.failedAt = IF fail THEN Append(@, p.pc) ELSE @], w, fail))

\* A whole handler: its steps to the end, the calls named in F failing.
RECURSIVE Run(_, _, _)
Run(p, w, F) ==
    IF p.pc = "done" THEN PW(p, w)
    ELSE LET r == Step(p, w, [pc |-> p.pc, id |-> CurId(p)] \in F)
         IN  Run(r.p, r.w, F)


\* ------------------------------------------------------------- specification

World == [hub |-> hub, target |-> target]

EmptyHub(ids) ==
    [ cd |-> [i \in ids |-> Absent],
      secret |-> [n \in SecretNames |-> Absent],
      cert |-> [n \in CertNames |-> Absent],
      mcs |-> [n \in McsNames |-> Absent],
      kubeconfig |-> [n \in KubeconfigNames |-> NoKubeconfig] ]

NewTarget == [i \in IDS |-> [sa |-> FALSE, tokenSecret |-> NoToken, issued |-> 0]]

Ids == DOMAIN hub.cd

Init ==
    /\ hub = EmptyHub({ID1})
    /\ target = NewTarget
    /\ queue = {}
    /\ rec = Idle
    /\ rot = Idle
    /\ last = Idle
    /\ prev = Summary(Idle)

\* The calls a handler makes when no backend error is injected, as (pc, id).
RECURSIVE CallsOf(_, _)
CallsOf(p, w) ==
    IF p.pc = "done" THEN {}
    ELSE LET r == Step(p, w, FALSE)
         IN  {[pc |-> p.pc, id |-> CurId(p)]} \cup CallsOf(r.p, r.w)

\* The sets of backend errors injected into one handler: at most one call per
\* identity fails, among the calls the handler makes.
FaultSets(p, w) ==
    LET calls == CallsOf(p, w)
        ids == {c.id : c \in calls}
        pcs == {c.pc : c \in calls}
    IN  { { [pc |-> f[i], id |-> i] : i \in {j \in ids : f[j] # "none"} } :
            f \in { g \in [ids -> pcs \cup {"none"}] :
                      \A i \in ids : g[i] = "none" \/ [pc |-> g[i], id |-> i] \in calls } }

\* No target cluster issues more than its tokens.
TokensLeft(w) == \A i \in DOMAIN w.target : w.target[i].issued <= MaxTokens

\* -- the environment: the fleet manager and the clusters
\* Handlers run one at a time here: nothing else happens between a handler's start
\* and the moment its result is taken (last = Idle outside of that).

CreateCD(i, shape) ==
    /\ last = Idle
    /\ hub.cd[i] = Absent
    /\ hub' = [hub EXCEPT !.cd[i] = CDObject(i, shape)]
    /\ queue' = IF EventFilter(CDObject(i, shape)) THEN queue \cup {i} ELSE queue
    /\ prev' = Summary(Idle)
    /\ UNCHANGED <<target, rec, rot, last>>

UpdateCD(i, shape) ==
    /\ last = Idle
    /\ hub.cd[i] # Absent
    /\ hub.cd[i] # CDObject(i, shape)
    /\ hub' = [hub EXCEPT !.cd[i] = CDObject(i, shape)]
    /\ queue' = IF EventFilter(CDObject(i, shape)) THEN queue \cup {i} ELSE queue
    /\ prev' = Summary(Idle)
    /\ UNCHANGED <<target, rec, rot, last>>

DeleteCD(i) ==
    /\ last = Idle
    /\ hub.cd[i] # Absent
    /\ hub' = [hub EXCEPT !.cd[i] = Absent]
    /\ queue' = IF EventFilter(hub.cd[i]) THEN queue \cup {i} ELSE queue
    /\ prev' = Summary(Idle)
    /\ UNCHANGED <<target, rec, rot, last>>

\* The watch delivers an event of an unchanged object again (at least once).
Redeliver(i) ==
    /\ last = Idle
    /\ hub.cd[i] # Absent
    /\ EventFilter(hub.cd[i])
    /\ i \notin queue
    /\ queue' = queue \cup {i}
    /\ UNCHANGED <<hub, target, rec, rot, last, prev>>

\* The cluster's kubeconfig secret appears, on the hub or in its region.
KubeconfigCreated(i, where) ==
    /\ last = Idle
    /\ hub.cd[i] # Absent
    /\ hub.kubeconfig[KubeconfigNameOf[i]] = NoKubeconfig
    /\ hub' = [hub EXCEPT !.kubeconfig[KubeconfigNameOf[i]] = where]
    /\ prev' = Summary(Idle)
    /\ UNCHANGED <<target, queue, rec, rot, last>>

\* The helm chart installs the reader service account in the target cluster.
ServiceAccountInstalled(i) ==
    /\ last = Idle
    /\ hub.cd[i] # Absent
    /\ ~target[i].sa
    /\ target' = [target EXCEPT ![i].sa = TRUE]
    /\ prev' = Summary(Idle)
    /\ UNCHANGED <<hub, queue, rec, rot, last>>

\* -- the handlers, each as a whole

StartReconcile(i) == [NewProc("reconcile", i) EXCEPT !.pc = "rec_get"]
StartRotation == [NewProc("rotate", ID1) EXCEPT !.pc = "rot_list"]

\* The work queue hands request i to Reconcile, which runs to its return.
ReconcileRequest(i, F) ==
    /\ last = Idle
    /\ i \in queue
    /\ LET r == Run(StartReconcile(i), World, F)
       IN  /\ TokensLeft(r.w)
           /\ hub' = r.w.hub
           /\ target' = r.w.target
           /\ last' = r.p
    /\ queue' = queue \ {i}
    /\ UNCHANGED <<rec, rot, prev>>

\* The rotation worker's tick: rotateSecrets runs to its return.
RotationCycle(F) ==
    /\ last = Idle
    /\ LET r == Run(StartRotation, World, F)
       IN  /\ TokensLeft(r.w)
           /\ hub' = r.w.hub
           /\ target' = r.w.target
           /\ last' = r.p
    /\ UNCHANGED <<queue, rec, rot, prev>>

\* The handler's result is taken: a reconcile that returned an error is queued
\* again, any other result is forgotten.
Done ==
    /\ last # Idle
    /\ queue' = IF last.op = "reconcile" /\ last.result # "nil"
                THEN queue \cup {last.id} ELSE queue
    /\ prev' = Summary(last)
    /\ last' = Idle
    /\ UNCHANGED <<hub, target, rec, rot>>

Next ==
    \/ \E i \in Ids, shape \in CDShapes : CreateCD(i, shape)
    \/ \E i \in Ids, shape \in CDShapes : UpdateCD(i, shape)
    \/ \E i \in Ids : DeleteCD(i)
    \/ \E i \in Ids : Redeliver(i)
    \/ \E i \in Ids, where \in {"hub", "region"} : KubeconfigCreated(i, where)
    \/ \E i \in Ids : ServiceAccountInstalled(i)
    \/ \E i \in Ids : \E F \in FaultSets(StartReconcile(i), World) : ReconcileRequest(i, F)
    \/ \E F \in FaultSets(StartRotation, World) : RotationCycle(F)
    \/ Done

Spec == Init /\ [][Next]_vars


\* ------------------------------------------- reconcile and rotation, interleaved
\* One ready cluster; a queued reconcile and one rotation cycle run concurrently,
\* one call on the hub or on the target cluster at a time. No backend error is
\* injected: a call fails only when the store's state makes it fail.

KubeconfigPlace(cd) == IF CreatedInKCMRegion(cd).region THEN "region" ELSE "hub"

\* The ready member shapes whose credential leads to a kubeconfig.
ConcShapes ==
    { s \in CDShapes : /\ s.role = "member"
                       /\ IsClusterDeploymentReady(CDObject(ID1, s))
                       /\ s.credential \in {"cred-primary", "cred-region"} }

\* The world in which cluster ID1 of the given shape is provisioned.
Provisioned(shape) ==
    LET cd == CDObject(ID1, shape)
    IN  [ hub |-> [EmptyHub({ID1}) EXCEPT
                      !.cd[ID1] = cd,
                      !.kubeconfig[KubeconfigNameOf[ID1]] = KubeconfigPlace(cd)],
          target |-> [NewTarget EXCEPT ![ID1].sa = TRUE] ]

\* Either nothing has been derived yet, or an earlier reconcile has succeeded.
InitConc ==
    /\ \E shape \in ConcShapes, reconciled \in BOOLEAN :
          LET w == IF reconciled
                   THEN Run(StartReconcile(ID1), Provisioned(shape), {}).w
                   ELSE Provisioned(shape)
          IN  hub = w.hub /\ target = w.target
    /\ queue = {ID1}
    /\ rec = Idle
    /\ rot = Idle
    /\ last = Idle
    /\ prev = Summary(Idle)

ConcReconcileStart(i) ==
    /\ rec = Idle
    /\ i \in queue
    /\ rec' = StartReconcile(i)
    /\ queue' = queue \ {i}
    /\ UNCHANGED <<hub, target, rot, last, prev>>

ConcReconcileStep ==
    /\ rec.pc \notin {"idle", "done"}
    /\ LET r == Step(rec, World, FALSE)
       IN  /\ TokensLeft(r.w)
           /\ rec' = r.p
           /\ hub' = r.w.hub
           /\ target' = r.w.target
    /\ UNCHANGED <<queue, rot, last, prev>>

\* Reconcile has returned: an error queues the request again.
ConcReconcileReturn ==
    /\ rec.pc = "done"
    /\ queue' = IF rec.result # "nil" THEN queue \cup {rec.id} ELSE queue
    /\ prev' = Summary(rec)
    /\ rec' = Idle
    /\ UNCHANGED <<hub, target, rot, last>>

\* The one rotation cycle considered.
ConcRotationStart ==
    /\ rot = Idle
    /\ last = Idle
    /\ rot' = StartRotation
    /\ UNCHANGED <<hub, target, queue, rec, last, prev>>

ConcRotationStep ==
    /\ rot.pc \notin {"idle", "done"}
    /\ LET r == Step(rot, World, FALSE)
       IN  /\ TokensLeft(r.w)
           /\ rot' = r.p
           /\ hub' = r.w.hub
           /\ target' = r.w.target
    /\ UNCHANGED <<queue, rec, last, prev>>

ConcRotationReturn ==
    /\ rot.pc = "done"
    /\ last' = rot
    /\ rot' = Idle
    /\ UNCHANGED <<hub, target, queue, rec, prev>>

NextConc ==
    \/ \E i \in Ids : ConcReconcileStart(i)
    \/ ConcReconcileStep
    \/ ConcReconcileReturn
    \/ ConcRotationStart
    \/ ConcRotationStep
    \/ ConcRotationReturn

SpecConc == InitConc /\ [][NextConc]_vars

\* The same with the deletion of the ClusterDeployment, at any moment before the
\* rotation cycle has returned.
NextGone ==
    \/ NextConc
    \/ \E i \in Ids : DeleteCD(i)

SpecGone == InitConc /\ [][NextGone]_vars

\* ------------------------------------------------- two clusters and their names
\* Two ClusterDeployments whose namespaces and names are drawn from strings with
\* and without a dash; each has its kubeconfig on the hub and its service account.
\* They are created, reconciled (no backend error injected) and deleted.

\* Namespaces "a" and "a-b", names "c" and "b-c".
NameIds == [namespace : {<<97>>, <<97, 45, 98>>}, name : {<<99>>, <<98, 45, 99>>}]

\* A member outside of any mesh and region, ready or not.
NameShapes == {s \in CDShapes : s.role = "member" /\ s.template = Str_aws_t /\ s.mesh = NoMesh}

InitNames ==
    /\ \E x \in NameIds, y \in NameIds :
          LET ids == {x, y}
          IN  /\ x # y
              /\ hub = [ cd |-> [i \in ids |-> Absent],
                         secret |-> [n \in {GetRemoteSecretName(i.name, i.namespace) : i \in ids}
                                        |-> Absent],
                         cert |-> [n \in {GetCertName(i.name, i.namespace) : i \in ids}
                                      |-> Absent],
                         mcs |-> [n \in {GetCertNameHash(i.name, i.namespace) : i \in ids}
                                       \cup {GetMultiClusterServiceName(i.name, i.namespace) :
                                                i \in ids}
                                     |-> Absent],
                         kubeconfig |-> [n \in {GetCloudClusterSecretName(i.name) : i \in ids}
                                            |-> "hub"] ]
              /\ target = [i \in ids |-> [sa |-> TRUE, tokenSecret |-> NoToken, issued |-> 0]]
    /\ queue = {}
    /\ rec = Idle
    /\ rot = Idle
    /\ last = Idle
    /\ prev = Summary(Idle)

NextNames ==
    \/ \E i \in Ids, shape \in NameShapes : CreateCD(i, shape)
    \/ \E i \in Ids : DeleteCD(i)
    \/ \E i \in Ids : ReconcileRequest(i, {})
    \/ Done

SpecNames == InitNames /\ [][NextNames]_vars

\* ------------------------------------------------ the rotation worker, shut down
\* Two ready clusters; the worker started by StartRotationWorker runs its cycles
\* one call at a time, and the process's context is cancelled at any moment. The
\* worker looks at the context only in its select, between two cycles; inside a
\* cycle the context reaches the client calls, and a call made with a cancelled
\* context returns its error without reaching the server.

\* getOrCreateServiceAccount reads the service account with context.TODO(); every
\* other call of a cycle is made with the worker's context.
TakesContext(pc) == pc # "b_sa"

\* The world in which both clusters are provisioned, the first with the given
\* shape, the second a ready member outside of any mesh and region.
ProvisionedFleet(shape) ==
    LET cd1 == CDObject(ID1, shape)
        cd2 == CDObject(ID2, [ role |-> "member", template |-> Str_aws_t,
                               conditions |-> <<CondReadyFalse, CondCAPI>>,
                               mesh |-> NoMesh, credential |-> "cred-primary" ])
    IN  [ hub |-> [EmptyHub(IDS) EXCEPT
                      !.cd[ID1] = cd1,
                      !.cd[ID2] = cd2,
                      !.kubeconfig[KubeconfigNameOf[ID1]] = KubeconfigPlace(cd1),
                      !.kubeconfig[KubeconfigNameOf[ID2]] = KubeconfigPlace(cd2)],
          target |-> [i \in IDS |-> [NewTarget[i] EXCEPT !.sa = TRUE]] ]

\* The world after the clusters in done have been reconciled.
Reconciled(w, done) ==
    LET w1 == IF ID1 \in done THEN Run(StartReconcile(ID1), w, {}).w ELSE w
    IN  IF ID2 \in done THEN Run(StartReconcile(ID2), w1, {}).w ELSE w1

InitStop ==
    /\ \E shape \in ConcShapes, done \in SUBSET IDS :
          LET w == Reconciled(ProvisionedFleet(shape), done)
          IN  hub = w.hub /\ target = w.target
    /\ queue = {}
    /\ rec = Idle
    /\ rot = Idle
    /\ last = Idle
    /\ prev = Summary(Idle)

\* case <-m.ticker.C: a cycle starts, and the remote secrets held at that moment
\* are noted. The select takes any ready case, so a tick may be taken although the
\* context is already cancelled.
WorkerTick ==
    /\ rot.pc = "idle"
    /\ rot' = [StartRotation EXCEPT !.ctx = rot.ctx, !.had = {n \in SecretNames : hub.secret[n] # Absent}]
    /\ UNCHANGED <<hub, target, queue, rec, last, prev>>

\* The next call of the cycle; it fails when its context is cancelled.
WorkerStep ==
    /\ rot.pc \notin {"idle", "done", "stopped"}
    /\ LET r == Step(rot, World, rot.ctx = "done" /\ TakesContext(rot.pc))
       IN  /\ TokensLeft(r.w)
           /\ rot' = r.p
           /\ hub' = r.w.hub
           /\ target' = r.w.target
    /\ UNCHANGED <<queue, rec, last, prev>>

\* rotateSecrets returns to the select.
WorkerCycleReturn ==
    /\ rot.pc = "done"
    /\ last' = rot
    /\ rot' = [Idle EXCEPT !.ctx = rot.ctx]
    /\ UNCHANGED <<hub, target, queue, rec, prev>>

\* The process lifecycle signals shutdown: the context is cancelled.
Shutdown ==
    /\ rot.pc # "stopped"
    /\ rot.ctx = "live"
    /\ rot' = [rot EXCEPT !.ctx = "done"]
    /\ UNCHANGED <<hub, target, queue, rec, last, prev>>

\* case <-ctx.Done(): the worker returns.
WorkerStops ==
    /\ rot.pc = "idle"
    /\ rot.ctx = "done"
    /\ rot' = [rot EXCEPT !.pc = "stopped"]
    /\ UNCHANGED <<hub, target, queue, rec, last, prev>>

NextStop ==
    \/ WorkerTick
    \/ WorkerStep
    \/ WorkerCycleReturn
    \/ Shutdown
    \/ WorkerStops

SpecStop == InitStop /\ [][NextStop]_vars

\* ---------------------------------------------------- rotation over two clusters
\* The fleet of two provisioned clusters, reconciled or not; one rotation cycle
\* runs as a whole, any one backend call per cluster failing, and its result is
\* taken.

NextFleet ==
    \/ \E F \in FaultSets(StartRotation, World) : prev = Summary(Idle) /\ RotationCycle(F)
    \/ Done

SpecFleet == InitStop /\ [][NextFleet]_vars


\* -------------------------------------------------------- the token-data poll
\* waitForTokenData on its own: the builder holds a token secret, read from the
\* target cluster, and needs its "ca.crt" and "token" data; the target cluster
\* may fill the data in meanwhile, a Get may fail, and the context of the call
\* may be cancelled. rec is the polling call, target the stored secret.

TokenKeys == {"ca.crt", "token"}

\* tokenWaitBackoff = time.Second, in seconds.
tokenWaitBackoff == 1

\* backoff.WithMaxRetries(..., 5): NextBackOff answers Stop once it has been
\* asked MaxRetries times since the Reset.
MaxRetries == 5

tokenDataFromSecret(data) ==
    IF "ca.crt" \notin data THEN "errMissingRootCAKey"
    ELSE IF "token" \notin data THEN "errMissingTokenKey"
    ELSE "nil"

\* The call, holding the secret object it was given.
NewPoll(given) ==
    [ pc |-> "start", secret |-> [named |-> TRUE, data |-> given],
      numTries |-> 0, reads |-> 0, slept |-> 0, ctx |-> "live", err |-> "nil" ]

\* One step of waitForTokenData. At "op" the operation of backoff.Retry runs:
\* the Get assigns its result to secret, an empty object when it fails, and the
\* next Get asks for the name of that object; after a failed operation
\* NextBackOff is asked, and the timer of the constant back-off is waited for
\* under the context of the back-off, which is context.Background().
waitForTokenData(q, stored, fail) ==
    CASE q.pc = "start" ->
            IF tokenDataFromSecret(q.secret.data) = "nil"
            THEN [q EXCEPT !.pc = "returned", !.err = "nil"]
            ELSE [q EXCEPT !.pc = "op", !.numTries = 0]
      [] q.pc = "op" ->
            LET failed == fail \/ ~q.secret.named
                got == IF failed THEN [named |-> FALSE, data |-> {}]
                       ELSE [named |-> TRUE, data |-> stored]
                e == IF failed THEN "get failed" ELSE tokenDataFromSecret(stored)
                r == [q EXCEPT !.secret = got, !.reads = @ + 1, !.err = e]
            IN  IF e = "nil" \/ MaxRetries <= q.numTries
                THEN [r EXCEPT !.pc = "returned"]
                ELSE [r EXCEPT !.pc = "sleep", !.numTries = @ + 1]
      [] q.pc = "sleep" ->
            [q EXCEPT !.pc = "op", !.slept = @ + tokenWaitBackoff]
      [] OTHER -> q

InitPoll ==
    /\ \E given \in SUBSET TokenKeys, stored \in SUBSET TokenKeys :
          /\ given \subseteq stored
          /\ rec = NewPoll(given)
          /\ target = [data |-> stored]
    /\ hub = EmptyHub(IDS)
    /\ queue = {}
    /\ rot = Idle
    /\ last = Idle
    /\ prev = Summary(Idle)

\* The call goes on by one step; a Get under a cancelled context fails.
PollStep ==
    /\ rec.pc \in {"start", "op", "sleep"}
    /\ \E fail \in BOOLEAN :
          rec' = waitForTokenData(rec, target.data, fail \/ rec.ctx = "done")
    /\ UNCHANGED <<hub, target, queue, rot, last, prev>>

\* The target cluster fills in one of the data keys of the token secret.
Populate ==
    /\ \E k \in TokenKeys \ target.data : target' = [target EXCEPT !.data = @ \cup {k}]
    /\ UNCHANGED <<hub, queue, rec, rot, last, prev>>

\* The context of the builder call is cancelled.
PollShutdown ==
    /\ rec.ctx = "live"
    /\ rec.pc # "returned"
    /\ rec' = [rec EXCEPT !.ctx = "done"]
    /\ UNCHANGED <<hub, target, queue, rot, last, prev>>

NextPoll ==
    \/ PollStep
    \/ Populate
    \/ PollShutdown

SpecPoll == InitPoll /\ [][NextPoll]_vars

\* ------------------------------------------------- tokens, hours and rotation
\* One cluster, its reconciler and the rotation worker under a clock that counts
\* whole hours: the ticker fires every RotationInterval and rotateSecrets runs
\* at each tick; no backend call fails. rot is the clock: the hour, and the
\* number of tokens the target cluster had issued when each hour began.

\* The hours the clock counts.
MaxHours == 3

\* serviceAccountTokenExpirationSeconds = 60 * 120, in hours.
TokenValidity == 2

\* RotationInterval = 1 * time.Hour, in hours.
RotationInterval == 1

\* Plain members, ready or not.
FreshShapes ==
    {s \in CDShapes : s.role = "member" /\ s.template = Str_aws_t /\ s.mesh = NoMesh}

InitFresh ==
    /\ hub = EmptyHub({ID1})
    /\ target = [i \in IDS |-> [NewTarget[i] EXCEPT !.sa = TRUE]]
    /\ queue = {}
    /\ rec = Idle
    /\ rot = [now |-> 0, mark |-> <<>>]
    /\ last = Idle
    /\ prev = Summary(Idle)

\* case <-m.ticker.C: an interval has passed and rotateSecrets runs to its return.
HourTick ==
    /\ last = Idle
    /\ rot.now + RotationInterval <= MaxHours
    /\ LET r == Run(StartRotation, World, {})
       IN  /\ TokensLeft(r.w)
           /\ hub' = r.w.hub
           /\ target' = r.w.target
           /\ last' = r.p
    /\ rot' = [now |-> rot.now + RotationInterval,
               mark |-> Append(rot.mark, target[ID1].issued)]
    /\ UNCHANGED <<queue, rec, prev>>

NextFresh ==
    \/ \E i \in Ids, shape \in FreshShapes : CreateCD(i, shape)
    \/ \E i \in Ids, shape \in FreshShapes : UpdateCD(i, shape)
    \/ \E i \in Ids : DeleteCD(i)
    \/ \E i \in Ids : KubeconfigCreated(i, "hub")
    \/ \E i \in Ids : ReconcileRequest(i, {})
    \/ HourTick
    \/ Done

SpecFresh == InitFresh /\ [][NextFresh]_vars

\* ------------------------------------------------------ one call of the builder
\* CreateRemoteSecret from its first line, with the options of the call and the
\* version the target cluster reports. rec is the call, target the cluster.

\* The minor version from which the token-request path is taken.
TokenRequestMinor == 24

\* version.ParseGeneric("v<Major>.<Minor>.0"), Major and Minor as byte strings:
\* the leading digits of each are a component, a component with a leading zero
\* is illegal, and less than two components are no version.
RECURSIVE LeadingDigits(_)
LeadingDigits(s) ==
    IF s = <<>> \/ Head(s) \notin 48..57 THEN <<>>
    ELSE <<Head(s)>> \o LeadingDigits(Tail(s))

RECURSIVE Decimal(_)
Decimal(ds) ==
    IF ds = <<>> THEN 0
    ELSE 10 * Decimal(SubSeq(ds, 1, Len(ds) - 1)) + (ds[Len(ds)] - 48)

ParseGeneric(major, minor) ==
    LET ma == LeadingDigits(major)
        mi == LeadingDigits(minor)
        zeroPrefixed(c) == Len(c) > 1 /\ c[1] = 48
    IN  IF ma = <<>> \/ ma # major \/ mi = <<>> \/ zeroPrefixed(ma) \/ zeroPrefixed(mi)
        THEN [err |-> "illegal version", major |-> 0, minor |-> 0]
        ELSE [err |-> "nil", major |-> Decimal(ma), minor |-> Decimal(mi)]

\* k8s.IsKubeAtLeastOrLessThanVersion(clusterVersion, minorVersion, true).
IsKubeAtLeastOrLessThanVersion(info, minorVersion) ==
    LET cv == ParseGeneric(info.major, info.minor)
    IN  IF cv.err # "nil" THEN TRUE
        ELSE cv.major > 1 \/ (cv.major = 1 /\ cv.minor >= minorVersion)

\* A probe that takes a failed discovery for an old cluster.
IsAtLeastVersion_StrictProbe(info, minorVersion, fail) ==
    ~fail /\ IsKubeAtLeastOrLessThanVersion(info, minorVersion)

\* k8s.IsAtLeastVersion: true when the discovery call fails.
IsAtLeastVersion(info, minorVersion, fail) ==
    IF fail THEN TRUE ELSE IsKubeAtLeastOrLessThanVersion(info, minorVersion)

\* legacyGetServiceAccountSecret without opt.SecretName: the one secret the
\* service account names, read from the cluster.
legacyGetServiceAccountSecret(q, w, fail) ==
    LET tgt == w.target[TargetOf(q.cd)]
    IN  IF tgt.saSecrets = 0 THEN Ret(q, w, "no secret found in the service account")
        ELSE IF tgt.saSecrets # 1 THEN Ret(q, w, "wrong number of secrets")
        ELSE IF fail THEN Ret(q, w, "failed to get secret")
        ELSE PW([q EXCEPT !.pc = "c_auth"], w)

\* The call with options opt for ClusterDeployment cd.
NewCall(cd, opt, w) ==
    [NewProc("build", TargetOf(cd)) EXCEPT !.pc = "c_type", !.cd = cd,
                                          !.overwrite = opt.AllowOverwrite,
                                          !.mgr = "CreateRemoteSecret"]
    @@ [ opt |-> opt, strategy |-> "none", probes |-> 0,
         issuedBefore |-> w.target[TargetOf(cd)].issued ]

\* One step of CreateRemoteSecret: the switch on opt.Type, getServiceAccountSecret
\* (the service account, the version probe, and the token secret by the legacy
\* or the current path), and the switch on opt.AuthType.
CreateRemoteSecretCall(q, w, fail) ==
    CASE q.pc = "c_type" ->
            IF q.opt.Type \notin {"remote", "config"} THEN Ret(q, w, "unsupported type")
            ELSE PW([q EXCEPT !.pc = "b_sa"], w)
      [] q.pc = "b_sa" ->
            LET r == CreateRemoteSecret(q, w, fail)
            IN  IF r.p.pc = "b_tokget" THEN PW([r.p EXCEPT !.pc = "c_version"], r.w) ELSE r
      [] q.pc = "c_version" ->
            LET info == w.target[TargetOf(q.cd)].version
                current == IsAtLeastVersion(info, TokenRequestMinor, fail)
            IN  PW([q EXCEPT !.probes = @ + 1,
                             !.strategy = IF current THEN "current" ELSE "legacy",
                             !.pc = IF current THEN "b_tokget" ELSE "c_legacy"], w)
      [] q.pc = "c_legacy" -> legacyGetServiceAccountSecret(q, w, fail)
      [] q.pc \in {"b_tokget", "b_token", "b_tokupdate", "b_tokcreate"} ->
            LET r == CreateRemoteSecret(q, w, fail)
            IN  IF r.p.pc = "rs_delete" THEN PW([r.p EXCEPT !.pc = "c_auth"], r.w) ELSE r
      [] q.pc = "c_auth" ->
            IF q.opt.AuthType \in {"bearer-token", "plugin"} THEN Ret(q, w, "nil")
            ELSE Ret(q, w, "unsupported authentication type")
      [] OTHER -> PW(q, w)

\* The versions a cluster reports: major 1 or none, minor "", 5, 23, 23+, 24,
\* 24+, 30 and 05.
VersionInfos ==
    [ major : {<<49>>, <<>>},
      minor : {<<>>, <<53>>, <<50, 51>>, <<50, 51, 43>>, <<50, 52>>, <<50, 52, 43>>,
               <<51, 48>>, <<48, 53>>} ]

CallOptions ==
    [ Type : {"remote", "config", "other"},
      AuthType : {"bearer-token", "plugin", "other"},
      AllowOverwrite : BOOLEAN ]

InitCalls ==
    /\ hub = [EmptyHub({ID1}) EXCEPT !.cd[ID1] = CDObject(ID1, CHOOSE s \in ConcShapes : TRUE)]
    /\ \E info \in VersionInfos, n \in 0..2, sa \in BOOLEAN, tok \in {NoToken, 1} :
          target = [i \in IDS |->
                      [ sa |-> sa, tokenSecret |-> tok, issued |-> tok,
                        version |-> info, saSecrets |-> n ]]
    /\ queue = {}
    /\ rec = Idle
    /\ rot = Idle
    /\ last = Idle
    /\ prev = Summary(Idle)

\* GetRemoteSecret, or another caller, calls the builder with some options.
CallStarts ==
    /\ rec = Idle
    /\ \E opt \in CallOptions : rec' = NewCall(hub.cd[ID1], opt, World)
    /\ UNCHANGED <<hub, target, queue, rot, last, prev>>

\* The call goes on by one step, its backend call failing or not.
CallStep ==
    /\ rec # Idle
    /\ rec.pc # "ret"
    /\ \E fail \in BOOLEAN :
          /\ fail => rec.pc \notin {"c_type", "c_auth"}
          /\ LET r == CreateRemoteSecretCall(
                         [rec EXCEPT !.failedAt = IF fail THEN Append(@, rec.pc) ELSE @],
                         World, fail)
             IN  /\ rec' = r.p
                 /\ target' = r.w.target
    /\ UNCHANGED <<hub, queue, rot, last, prev>>

NextCalls ==
    \/ CallStarts
    \/ CallStep

SpecCalls == InitCalls /\ [][NextCalls]_vars

\* ------------------------------------- the builder and the Credential objects
\* One call of RemoteSecretManager.TryCreate for a ready member cluster whose
\* spec names the credential "cred-region", on a hub whose Credential objects
\* live in more than one namespace and are updated while the call runs. The
\* hub's record carries them as creds, in the order a List returns them.

\* The Credential objects a hub may hold: Credential is a namespaced kind, its
\* name is unique within its namespace only.
CredentialObjects ==
    [ name : {"cred-region", "cred-primary"},
      namespace : {DefaultKCMSystemNamespace, "default"},
      region : {"", "r1", "r2"} ]

\* k8s.CreatedInKCMRegion over the hub's Credential objects: the Get of
\* kcm-system/<cd.Spec.Credential>, and the object it returned.
CreatedInKCMRegionOf(creds, cd) ==
    LET got == { k \in 1..Len(creds) : /\ creds[k].name = cd.credential
                                       /\ creds[k].namespace = DefaultKCMSystemNamespace }
    IN  IF got = {}
        THEN [err |-> "notfound", region |-> FALSE, cred |-> Absent]
        ELSE LET c == creds[CHOOSE k \in got : TRUE]
             IN  [err |-> "nil", region |-> c.region # "", cred |-> c]

\* k8s.GetKcmRegionClusterNameRelatedToClusterDeployment over the hub's
\* Credential objects: the List of every namespace, and the region of the first
\* item whose name is cd.Spec.Credential, "" when no item has that name.
GetKcmRegionClusterName(creds, cd) ==
    LET hits == { k \in 1..Len(creds) : creds[k].name = cd.credential }
    IN  IF hits = {} THEN ""
        ELSE creds[CHOOSE k \in hits : \A j \in hits : k <= j].region

\* TryCreate from its region decision on: the decision and the region name are
\* read from the hub's Credential objects, the process keeps the Credential the
\* decision was made on (basis) and whether a region name was resolved.
TryCreateOver(q, w, fail) ==
    CASE q.pc = "rs_region" ->
           LET r == CreatedInKCMRegionOf(w.hub.creds, q.cd)
           IN  IF fail \/ r.err # "nil"
               THEN Ret(q, w, "failed to determine cluster region")
               ELSE IF r.region
               THEN PW([q EXCEPT !.pc = "rs_regionname", !.basis = r.cred], w)
               ELSE PW([q EXCEPT !.pc = "rs_kubeconfig", !.basis = r.cred], w)
      [] q.pc = "rs_regionname" ->
           IF fail THEN Ret(q, w, "failed to get cluster region")
           ELSE LET rn == GetKcmRegionClusterName(w.hub.creds, q.cd)
                    r == [q EXCEPT !.regionName = rn, !.resolved = TRUE]
                IN  IF rn = "" THEN Ret(r, w, "failed to get kubeconfig by region name")
                    ELSE PW([r EXCEPT !.pc = "rs_regionobj"], w)
      [] OTHER -> Dispatch(q, w, fail)

InitCreds ==
    /\ \E creds \in UNION {[1..n -> CredentialObjects] : n \in 0..2} :
          LET cd == CDObject(ID1, CHOOSE s \in ConcShapes : s.credential = "cred-region")
          IN  /\ \A j, k \in 1..Len(creds) :
                    (creds[j].name = creds[k].name /\ creds[j].namespace = creds[k].namespace)
                        => j = k
              /\ hub = [creds |-> creds]
                         @@ [EmptyHub({ID1}) EXCEPT !.cd[ID1] = cd,
                                                    !.kubeconfig[KubeconfigNameOf[ID1]] = "region"]
    /\ target = [i \in IDS |-> [NewTarget[i] EXCEPT !.sa = TRUE]]
    /\ \E overwrite \in BOOLEAN :
          rec = RemoteSecretManager_TryCreate(
                    [NewProc("build", ID1) EXCEPT !.cd = hub.cd[ID1], !.overwrite = overwrite]
                        @@ [basis |-> Absent, resolved |-> FALSE],
                    [hub |-> hub, target |-> target]).p
    /\ queue = {}
    /\ rot = Idle
    /\ last = Idle
    /\ prev = Summary(Idle)

\* The call goes on by one step, its backend call failing or not.
CredStep ==
    /\ rec.pc # "ret"
    /\ \E fail \in BOOLEAN :
          LET r == TryCreateOver(
                      [rec EXCEPT !.failedAt = IF fail THEN Append(@, rec.pc) ELSE @],
                      World, fail)
          IN  /\ rec' = r.p
              /\ hub' = r.w.hub
              /\ target' = r.w.target
    /\ UNCHANGED <<queue, rot, last, prev>>

\* The call goes on, or someone sets the region of a Credential of the hub.
NextCreds ==
    \/ CredStep
    \/ /\ rec.pc # "ret"
       /\ \E k \in 1..Len(hub.creds), region \in {"", "r1", "r2"} :
             /\ region # hub.creds[k].region
             /\ hub' = [hub EXCEPT !.creds[k].region = region]
       /\ UNCHANGED <<target, queue, rec, rot, last, prev>>

SpecCreds == InitCreds /\ [][NextCreds]_vars

\* ---------------------------------------------------------------- properties

CreateManagers ==
    << "RemoteSecretManager.TryCreate", "CertManager.TryCreate",
       "RemoteSecretPropagationManager.TryCreate" >>

DeleteManagers ==
    << "RemoteSecretManager.TryDelete", "CertManager.TryDelete",
       "RemoteSecretPropagationManager.TryDelete" >>

\* The derived name the reconciler reports when the k-th manager fails.
ArtifactName(k, i) ==
    CASE k = 1 -> SecretNameOf[i]
      [] k = 2 -> CertNameOf[i]
      [] k = 3 -> RsMcsNameOf[i]

Warnings(p) == {k \in 1..Len(p.events) : p.events[k].type = "Warning"}

CreateReconcile(p) == p.op = "reconcile" /\ p.path = "create"
DeleteReconcile(p) == p.op = "reconcile" /\ p.path = "delete"

\* C1: a create reconcile calls the credential builder, the certificate manager
\* and the propagation manager in that order; it stops at the first manager that
\* returns an error, records exactly one warning event, which names the failing
\* artifact, and returns that error; with no error it calls all three, records no
\* warning and returns success.
C1_CreateOrderShortCircuit ==
    CreateReconcile(last) =>
        LET n == Len(last.rets)
        IN  /\ last.calls = SubSeq(CreateManagers, 1, n)
            /\ n >= 1
            /\ \A k \in 1..n : last.rets[k].mgr = CreateManagers[k]
            /\ \A k \in 1..(n - 1) : last.rets[k].ret = "nil"
            /\ last.result = last.rets[n].ret
            /\ IF last.rets[n].ret # "nil"
               THEN /\ Cardinality(Warnings(last)) = 1
                    /\ \A k \in Warnings(last) :
                          /\ k = Len(last.events)
                          /\ last.events[k].name = ArtifactName(n, last.id)
               ELSE n = 3 /\ Warnings(last) = {}

\* C1 witness: a create reconcile that failed in the certificate manager, after
\* the credential builder had succeeded, and never called the propagation manager.
C1_Witness ==
    /\ CreateReconcile(last)
    /\ last.calls = <<"RemoteSecretManager.TryCreate", "CertManager.TryCreate">>
    /\ last.result # "nil"
    /\ hub.secret[SecretNameOf[last.id]] # Absent


\* The artifacts derived from identity i, as the hub stores them.
SecretOf(i) == hub.secret[SecretNameOf[i]]
CertOf(i) == hub.cert[CertNameOf[i]]
CaMcsOf(i) == hub.mcs[CaMcsNameOf[i]]
RsMcsOf(i) == hub.mcs[RsMcsNameOf[i]]

\* The lookups of the builder find what they ask for: the reader service account
\* in the cluster, and the cluster's kubeconfig where its credential points.
Provided(cd) ==
    LET i == TargetOf(cd)
        kc == hub.kubeconfig[KubeconfigNameOf[i]]
        r == CreatedInKCMRegion(cd)
        rn == GetKcmRegionClusterNameRelatedToClusterDeployment(cd)
    IN  /\ target[i].sa
        /\ r.err = "nil"
        /\ IF r.region
           THEN rn \in DOMAIN Regions /\ Regions[rn].kubeConfig /\ kc = "region"
           ELSE kc = "hub"

SecretWrites(p) == {k \in 1..Len(p.writes) : p.writes[k].kind = "Secret"}
TargetWrites(p) == {k \in 1..Len(p.writes) : p.writes[k].kind = "TokenSecret"}
McsWrites(p) == {k \in 1..Len(p.writes) : p.writes[k].kind = "MultiClusterService"}
CertWrites(p) == {k \in 1..Len(p.writes) : p.writes[k].kind = "Certificate"}

\* C2: a reconcile of a ready cluster that carries an accepted role label, in which
\* every backend call succeeds (no call returns an error and every lookup finds
\* its object: the service account, the credential, the kubeconfig), returns
\* success, and then the remote secret, the certificate with common name
\* "<clusterName> CA" and the remote secret's MultiClusterService exist under
\* their derived names.
C2_ReadyReconcileCreatesAll ==
    ( /\ CreateReconcile(last)
      /\ last.failedAt = <<>>
      /\ EventFilter(last.cd)
      /\ IsClusterDeploymentReady(last.cd)
      /\ Provided(last.cd) )
    => /\ last.result = "nil"
       /\ SecretOf(last.id) # Absent
       /\ DOMAIN SecretOf(last.id).data = {last.cd.name}
       /\ CertOf(last.id) # Absent
       /\ CertOf(last.id).name = CertNameOf[last.id]
       /\ CertOf(last.id).commonName = last.cd.name \o Str_CA
       /\ RsMcsOf(last.id) # Absent
       /\ RsMcsOf(last.id).name = RsMcsNameOf[last.id]

\* C2 witness: such a reconcile has just created the three artifacts.
C2_Witness ==
    /\ CreateReconcile(last)
    /\ last.failedAt = <<>>
    /\ EventFilter(last.cd) /\ IsClusterDeploymentReady(last.cd) /\ Provided(last.cd)
    /\ last.result = "nil"
    /\ Len(last.writes) >= 3
    /\ SecretWrites(last) # {} /\ CertWrites(last) # {} /\ McsWrites(last) # {}

\* C3 (as the specification states it): whenever a reconcile of an absent cluster
\* returns success, the remote secret, the certificate, the certificate's
\* MultiClusterService and the remote secret's MultiClusterService are all absent.
C3_DeleteSuccessLeavesNothing ==
    (DeleteReconcile(last) /\ last.result = "nil")
    => /\ SecretOf(last.id) = Absent
       /\ CertOf(last.id) = Absent
       /\ CaMcsOf(last.id) = Absent
       /\ RsMcsOf(last.id) = Absent

\* C4 (as the specification states it, in finite form): once the retries for a
\* deleted cluster have ended (its delete reconcile returned success, the result
\* was taken and nothing is queued for it) all of its derived artifacts are absent.
C4_DeletionConverges ==
    ( /\ last = Idle
      /\ prev.op = "reconcile" /\ prev.path = "delete" /\ prev.ok
      /\ prev.id \in Ids
      /\ hub.cd[prev.id] = Absent
      /\ prev.id \notin queue )
    => /\ SecretOf(prev.id) = Absent
       /\ CertOf(prev.id) = Absent
       /\ CaMcsOf(prev.id) = Absent
       /\ RsMcsOf(prev.id) = Absent

\* C5: when a create reconcile of a ready cluster follows a successful create
\* reconcile of the same cluster with nothing in between, and no backend call
\* fails, it returns success, writes nothing, records no event, and the remote
\* secret, the certificate and the remote secret's MultiClusterService exist.
C5_SecondCreateIsNoOp ==
    ( /\ CreateReconcile(last)
      /\ prev = [op |-> "reconcile", id |-> last.id, path |-> "create", ok |-> TRUE]
      /\ IsClusterDeploymentReady(last.cd)
      /\ last.failedAt = <<>> )
    => /\ last.result = "nil"
       /\ last.writes = <<>>
       /\ last.events = <<>>
       /\ SecretOf(last.id) # Absent
       /\ CertOf(last.id) # Absent
       /\ RsMcsOf(last.id) # Absent

\* C5 witness: the second of two successive create reconciles of a ready cluster
\* has returned, all three managers called.
C5_Witness ==
    /\ CreateReconcile(last)
    /\ prev = [op |-> "reconcile", id |-> last.id, path |-> "create", ok |-> TRUE]
    /\ IsClusterDeploymentReady(last.cd)
    /\ last.failedAt = <<>>
    /\ last.calls = CreateManagers
    /\ SecretOf(last.id) # Absent

\* C6: in a delete reconcile every manager returns success unless a backend call
\* of its own failed with an error other than not-found, whatever is already
\* absent, and so does the reconcile: it returns an error exactly when a backend
\* call failed, and that error comes from the last manager called.
C6_DeleteToleratesAbsence ==
    DeleteReconcile(last) =>
        /\ (last.result = "nil") <=> (last.failedAt = <<>>)
        /\ \A k \in 1..Len(last.rets) :
              last.rets[k].ret # "nil" => (k = Len(last.rets) /\ last.failedAt # <<>>)
        /\ last.failedAt = <<>> => last.calls = DeleteManagers

\* C6 witness: a delete reconcile found nothing to delete and returned success.
C6_Witness ==
    /\ DeleteReconcile(last)
    /\ last.result = "nil"
    /\ last.calls = DeleteManagers
    /\ last.writes = <<>>

\* C7 (as the specification states it): a reconcile of an existing cluster with
\* an accepted role label that is not ready, no backend call failing, returns
\* success and creates the certificate, but creates no remote secret and no
\* MultiClusterService.
C7_NotReadyCreatesOnlyCertificate ==
    ( /\ CreateReconcile(last)
      /\ EventFilter(last.cd)
      /\ ~IsClusterDeploymentReady(last.cd)
      /\ last.failedAt = <<>> )
    => /\ last.result = "nil"
       /\ CertOf(last.id) # Absent
       /\ SecretWrites(last) = {}
       /\ McsWrites(last) = {}

\* C7 (amended): such a reconcile returns success, leaves the certificate and the
\* remote secret's MultiClusterService in place, and creates neither a remote
\* secret nor the certificate's MultiClusterService.
C7_NotReadyGatesSecretAndCaPropagation ==
    ( /\ CreateReconcile(last)
      /\ EventFilter(last.cd)
      /\ ~IsClusterDeploymentReady(last.cd)
      /\ last.failedAt = <<>> )
    => /\ last.result = "nil"
       /\ CertOf(last.id) # Absent
       /\ RsMcsOf(last.id) # Absent
       /\ SecretWrites(last) = {}
       /\ TargetWrites(last) = {}
       /\ \A k \in McsWrites(last) : last.writes[k].name = RsMcsNameOf[last.id]

\* C7 witness: a reconcile of a cluster of a mesh and a region that is not ready
\* has created the certificate and the remote secret's MultiClusterService.
C7_Witness ==
    /\ CreateReconcile(last)
    /\ EventFilter(last.cd)
    /\ ~IsClusterDeploymentReady(last.cd)
    /\ IsInMesh(last.cd) /\ CreatedInKCMRegion(last.cd).region
    /\ last.failedAt = <<>>
    /\ CertWrites(last) # {}
    /\ McsWrites(last) # {}

\* The returns of the builder in handler p.
BuilderReturns(p) ==
    {k \in 1..Len(p.rets) : p.rets[k].mgr = "RemoteSecretManager.TryCreate"}

\* C8: a builder call for a cluster that is not ready, from the reconciler or from
\* the rotation (overwrite), returns success and writes neither the remote secret
\* nor anything on the target cluster; every write of a remote secret belongs to a
\* builder call for a ready cluster.
C8_BuilderWritesOnlyWhenReady ==
    last.op \in {"reconcile", "rotate"} =>
        /\ \A k \in BuilderReturns(last) :
              LET i == last.rets[k].id
              IN  ~IsClusterDeploymentReady(hub.cd[i]) =>
                     /\ last.rets[k].ret = "nil"
                     /\ \A j \in SecretWrites(last) : last.writes[j].name # SecretNameOf[i]
                     /\ \A j \in TargetWrites(last) : last.writes[j].name # i
        /\ \A j \in SecretWrites(last) :
              last.writes[j].verb = "create" =>
                 \E k \in BuilderReturns(last) :
                    /\ SecretNameOf[last.rets[k].id] = last.writes[j].name
                    /\ IsClusterDeploymentReady(hub.cd[last.rets[k].id])

\* C8 witness: a rotation cycle called the builder for a cluster that is not
\* ready, although everything a build needs was there, and a secret existed.
C8_Witness ==
    /\ last.op = "rotate"
    /\ last.result = "nil"
    /\ \E k \in BuilderReturns(last) :
          LET i == last.rets[k].id
          IN  /\ ~IsClusterDeploymentReady(hub.cd[i])
              /\ Provided(hub.cd[i])
              /\ SecretOf(i) # Absent

\* The builder was called for ready cluster i in handler p and returned success.
Rebuilt(p, i) ==
    /\ i \in Ids
    /\ hub.cd[i] # Absent
    /\ IsClusterDeploymentReady(hub.cd[i])
    /\ \E k \in BuilderReturns(p) : p.rets[k].id = i /\ p.rets[k].ret = "nil"

\* C9: when a rotation cycle starts while the remote secret of a ready cluster
\* exists and its builder call (overwrite) returns success, the secret stored
\* under the same derived name afterwards is exactly the secret built from the
\* token issued in that call, and no secret of another name was written.
C9_Step ==
    \A i \in IDS :
        ( /\ last = Idle
          /\ last'.op = "rotate"
          /\ SecretOf(i) # Absent
          /\ Rebuilt(last', i) )
        => /\ target'[i].issued = target[i].issued + 1
           /\ hub'.secret[SecretNameOf[i]] =
                 [data |-> BuiltSecret(hub.cd[i], target'[i].issued).data]
           /\ \A n \in SecretNames \ {SecretNameOf[i]} : hub'.secret[n] = hub.secret[n]
           /\ \A j \in SecretWrites(last') : last'.writes[j].name = SecretNameOf[i]

C9_OverwriteReplaces == [][C9_Step]_vars

\* C9 witness: a rotation cycle has deleted and created again the secret of a
\* ready cluster.
C9_Witness ==
    /\ last.op = "rotate"
    /\ Rebuilt(last, ID1)
    /\ \E j, k \in SecretWrites(last) :
          /\ j < k
          /\ last.writes[j].verb = "delete"
          /\ last.writes[k].verb = "create"
    /\ SecretOf(ID1) # Absent

\* Both the reconcile, retried after every failure, and the rotation cycle have
\* finished.
ConcFinished ==
    /\ rec = Idle
    /\ rot = Idle
    /\ queue = {}
    /\ last.op = "rotate"
    /\ prev.op = "reconcile" /\ prev.ok

\* C10: however the calls of a create reconcile and of a rotation cycle on the
\* same ready cluster interleave, once both have finished, the reconcile retried
\* after every failure, exactly one remote secret exists, under the derived name
\* of the cluster, with the cluster's one data key.
C10_InterleavingsEndWithOneSecret ==
    ConcFinished =>
        /\ SecretOf(ID1) # Absent
        /\ DOMAIN SecretOf(ID1).data = {hub.cd[ID1].name}
        /\ \A n \in SecretNames \ {SecretNameOf[ID1]} : hub.secret[n] = Absent

\* C10 witness: both have finished after a race in which the rotation's create
\* found the secret the reconcile had just created.
C10_Witness ==
    /\ ConcFinished
    /\ last.total = 1 /\ last.success = 0
    /\ SecretOf(ID1) # Absent

\* C11: when shutdown is signalled while a rotation cycle is in progress, every
\* remote secret that existed when the cycle started exists once the worker has
\* stopped.
C11_ShutdownLeavesNoSecretHalfRotated ==
    (rot.pc = "stopped" /\ last.op = "rotate")
        => \A n \in last.had : hub.secret[n] # Absent

\* -- C12: which clusters a credential's descriptor selects

\* The labels of a ClusterDeployment: the role, and the mesh when it has one.
Labels(cd) ==
    IF IsInMesh(cd) THEN (IstioRoleLabel :> cd.role) @@ (IstioMeshLabel :> cd.mesh)
    ELSE (IstioRoleLabel :> cd.role)

\* ClusterSelector.MatchLabels: every pair of the selector is among the labels.
Selects(selector, labels) ==
    \A k \in DOMAIN selector : k \in DOMAIN labels /\ labels[k] = selector[k]

\* The clusters a descriptor may meet: every shape, and the mesh shapes in mesh m2.
Peers ==
    { CDObject(ID2, s) : s \in CDShapes }
    \cup { CDObject(ID2, [s EXCEPT !.mesh = "m2"]) : s \in {x \in CDShapes : x.mesh # NoMesh} }

\* The clusters whose remote-secret MultiClusterService exists and that are in a mesh.
MeshScopedWithDescriptor ==
    {i \in Ids : hub.cd[i] # Absent /\ IsInMesh(hub.cd[i]) /\ RsMcsOf(i) # Absent}

EventObject(i) == IF hub'.cd[i] # Absent THEN hub'.cd[i] ELSE hub.cd[i]

C13_Step ==
    \A i \in Ids :
        \* an event of an object whose role is not accepted queues nothing, starts
        \* no reconcile and leaves every derived artifact as it is
        /\ (hub'.cd[i] # hub.cd[i] /\ EventObject(i).role \notin IstioRoleLabelExpectedValues)
              => /\ queue' = queue
                 /\ last' = last
                 /\ hub' = [hub EXCEPT !.cd = hub'.cd]
                 /\ target' = target
        \* a request is queued by an event of an object with an accepted role, or
        \* by a reconcile of that request that returned an error
        /\ (i \in queue' /\ i \notin queue)
              => \/ /\ hub'.cd[i] # hub.cd[i]
                    /\ EventObject(i).role \in IstioRoleLabelExpectedValues
                 \/ /\ hub' = hub
                    /\ hub.cd[i] # Absent
                    /\ hub.cd[i].role \in IstioRoleLabelExpectedValues
                    /\ last' = last
                 \/ /\ last.op = "reconcile" /\ last.id = i /\ last.result # "nil"
                    /\ last' = Idle
        \* Reconcile is invoked for queued requests only
        /\ (last' # last /\ last'.op = "reconcile" /\ last'.id = i) => i \in queue

\* C13: only events of ClusterDeployments whose role label is member or child
\* trigger a reconcile: a create, update or delete event of any other
\* ClusterDeployment queues no request, invokes no reconcile and creates or
\* deletes no artifact; Reconcile runs for queued requests only.
C13_OnlyAcceptedRolesTrigger == [][C13_Step]_vars

\* C13 witness: the cluster carries another role value, its event has been
\* delivered, and nothing is queued, running or derived.
C13_Witness ==
    /\ hub.cd[ID1] # Absent
    /\ hub.cd[ID1].role \notin IstioRoleLabelExpectedValues
    /\ queue = {}
    /\ last = Idle
    /\ SecretOf(ID1) = Absent /\ CertOf(ID1) = Absent /\ RsMcsOf(ID1) = Absent

\* C14: a rotation cycle that has listed the clusters passes to the builder, with
\* AllowOverwrite, exactly the ClusterDeployments whose role label is member or
\* child; a ClusterDeployment with another role value is not passed to the builder
\* and the cycle creates no remote secret for it.
C14_RotationBuildsAcceptedRolesOnly ==
    (last.op = "rotate" /\ last.failedAt # <<"rot_list">>)
        => /\ {last.rets[k].id : k \in 1..Len(last.rets)}
                 = {i \in Ids : /\ hub.cd[i] # Absent
                                /\ hub.cd[i].role \in IstioRoleLabelExpectedValues}
           /\ \A k \in 1..Len(last.rets) :
                 last.rets[k].mgr = "RemoteSecretManager.TryCreate"
           /\ \A k \in SecretWrites(last) : \A i \in Ids :
                 (last.writes[k].name = SecretNameOf[i] /\ hub.cd[i] # Absent)
                     => hub.cd[i].role \in IstioRoleLabelExpectedValues

\* -- C15: the deprecated role value

\* The same ClusterDeployment under the other accepted role value.
OtherRole(cd) == [cd EXCEPT !.role = IF @ = "child" THEN "member" ELSE "child"]

\* The outcome of a handler, the role value of the cluster left aside.
RoleAside(pw, i) ==
    [ p |-> IF pw.p.cd = Absent THEN pw.p ELSE [pw.p EXCEPT !.cd.role = "accepted"],
      w |-> IF pw.w.hub.cd[i] = Absent THEN pw.w
            ELSE [pw.w EXCEPT !.hub.cd[i].role = "accepted"] ]

\* C15: a ClusterDeployment labelled child is reconciled as the same
\* ClusterDeployment labelled member is: wherever a request for it is about to be
\* reconciled, its events pass the filter under either value, the reconcile makes
\* the same calls under either value and, whichever of them fail, ends with the
\* same result, the same writes and events (names and contents), and the same
\* objects in the hub and in the cluster. (The delete path never reads the label.)
C15_ChildReconciledAsMember ==
    \A i \in queue :
        (last = Idle /\ hub.cd[i] # Absent /\ hub.cd[i].role \in IstioRoleLabelExpectedValues)
            => LET other == [World EXCEPT !.hub.cd[i] = OtherRole(@)]
               IN  /\ EventFilter(hub.cd[i]) = EventFilter(other.hub.cd[i])
                   /\ FaultSets(StartReconcile(i), World)
                         = FaultSets(StartReconcile(i), other)
                   /\ \A F \in FaultSets(StartReconcile(i), World) :
                         RoleAside(Run(StartReconcile(i), World, F), i)
                            = RoleAside(Run(StartReconcile(i), other, F), i)

\* C15 witness: a cluster labelled child has been reconciled with success and its
\* remote secret, certificate and MultiClusterService exist.
C15_Witness ==
    /\ last.op = "reconcile" /\ last.result = "nil"
    /\ last.cd # Absent /\ last.cd.role = "child"
    /\ SecretWrites(last) # {} /\ CertWrites(last) # {} /\ McsWrites(last) # {}
    /\ SecretOf(last.id) # Absent /\ CertOf(last.id) # Absent /\ RsMcsOf(last.id) # Absent

\* -- C16: names of different identities

\* The four derived names of an identity, as strings.
DerivedNames(i) ==
    [ cert |-> GetCertName(i.name, i.namespace),
      secret |-> NameString(GetRemoteSecretName(i.name, i.namespace)),
      rsMcs |-> NameString(GetMultiClusterServiceName(i.name, i.namespace)),
      caMcs |-> NameString(GetCertNameHash(i.name, i.namespace)) ]

\* C16: two identities that differ in namespace or in name have different
\* certificate names, different remote secret names and different
\* MultiClusterService names.
C16_NamesSeparateIdentities ==
    \A x \in Ids, y \in Ids :
        x # y => /\ DerivedNames(x).cert # DerivedNames(y).cert
                 /\ DerivedNames(x).secret # DerivedNames(y).secret
                 /\ DerivedNames(x).rsMcs # DerivedNames(y).rsMcs
                 /\ DerivedNames(x).caMcs # DerivedNames(y).caMcs

\* -- C17: the names the managers write under

\* "<namespace>-<clusterName>" and "<releaseName>-<namespace>-<clusterName>-ca".
KeyOf(i) == i.namespace \o <<45>> \o i.name
CaRequestNameOf(i) == IstioReleaseName \o <<45>> \o KeyOf(i) \o <<45, 99, 97>>

\* The string "<prefix>-<hash of s in base 16>".
HashedName(prefix, s) == [prefix |-> prefix, dash |-> <<45>>, hex |-> Hex32(New32a(s))]

\* C17: in the create path and in the delete path of a reconcile, every write on
\* the hub is made under the name derived from the request's namespace and name:
\* a certificate under "<releaseName>-<namespace>-<clusterName>-ca", a remote
\* secret under istio-remote-secret and the hash of "<namespace>-<clusterName>",
\* a MultiClusterService under remote-secret-propagation and the hash of
\* "<namespace>-<clusterName>" or under ca-cert-propagation and the hash of the
\* certificate's name; the created objects refer to each other by these names.
C17_WritesUnderDerivedNames ==
    (last.op = "reconcile" /\ last.path \in {"create", "delete"})
        => \A k \in 1..Len(last.writes) :
              LET w == last.writes[k]
                  i == last.id
              IN  CASE w.kind = "Certificate" -> w.name = CaRequestNameOf(i)
                    [] w.kind = "Secret" ->
                          NameString(w.name) = HashedName("istio-remote-secret", KeyOf(i))
                    [] w.kind = "MultiClusterService" ->
                          /\ NameString(w.name) \in
                                { HashedName("remote-secret-propagation", KeyOf(i)),
                                  HashedName("ca-cert-propagation", CaRequestNameOf(i)) }
                          /\ (w.verb = "create" /\ hub.mcs[w.name] # Absent) =>
                                IF w.name.prefix = "ca-cert-propagation"
                                THEN hub.mcs[w.name].ref.name = CaRequestNameOf(i)
                                ELSE NameString(hub.mcs[w.name].ref.name)
                                        = HashedName("istio-remote-secret", KeyOf(i))
                    [] OTHER -> w.kind = "TokenSecret"

\* C17 witness: a delete reconcile has deleted the remote secret, the certificate
\* and both MultiClusterServices that an earlier create reconcile had created.
C17_Witness ==
    /\ DeleteReconcile(last) /\ last.result = "nil"
    /\ \A k \in 1..Len(last.writes) : last.writes[k].verb = "delete"
    /\ SecretWrites(last) # {} /\ CertWrites(last) # {}
    /\ Cardinality(McsWrites(last)) = 2

\* -- C18: events and the writes they report

\* The events of a reason a handler has recorded.
EventsOf(p, reason) ==
    {k \in 1..Len(p.events) : p.events[k].type = "Normal" /\ p.events[k].reason = reason}

\* The writes of a verb a handler has made on objects of a kind; for a
\* MultiClusterService, on those of the remote secret's propagation.
WritesOf(p, verb, kind) ==
    {k \in 1..Len(p.writes) :
        /\ p.writes[k].verb = verb
        /\ p.writes[k].kind = kind
        /\ kind = "MultiClusterService" => p.writes[k].name.prefix = "remote-secret-propagation"}

\* The events of an artifact kind agree with the writes: one event per creation,
\* one per deletion, none otherwise.
EventsAgree(p, kind, created, deleted) ==
    /\ Cardinality(EventsOf(p, created)) = Cardinality(WritesOf(p, "create", kind))
    /\ Cardinality(EventsOf(p, deleted)) = Cardinality(WritesOf(p, "delete", kind))

\* C18: a reconcile records exactly one event for every remote secret,
\* certificate and remote-secret MultiClusterService it has created or deleted,
\* and none for an artifact it found existing on create or absent on delete.
C18_OneEventPerCreationAndDeletion ==
    last.op = "reconcile"
        => /\ EventsAgree(last, "Secret", "SecretCreated", "SecretDeleted")
           /\ EventsAgree(last, "Certificate", "CertificateCreated", "CertificateDeleted")
           /\ EventsAgree(last, "MultiClusterService",
                          "MultiClusterServiceCreated", "MultiClusterServiceDeleted")

\* -- C19: a certificate that exists

\* The return of CertManager.TryCreate in a handler, "none" when it was not called
\* or did not return.
CertManagerRet(p) ==
    IF \E k \in 1..Len(p.rets) : p.rets[k].mgr = "CertManager.TryCreate"
    THEN p.rets[CHOOSE k \in 1..Len(p.rets) : p.rets[k].mgr = "CertManager.TryCreate"].ret
    ELSE "none"

C19_Step ==
    \A i \in Ids :
        (last = Idle /\ CreateReconcile(last') /\ last'.id = i)
        => /\ CertOf(i) # Absent
                => /\ hub'.cert[CertNameOf[i]] = hub.cert[CertNameOf[i]]
                   /\ CertWrites(last') = {}
                   /\ EventsOf(last', "CertificateCreated") = {}
                   /\ ("cert_create" \in {last'.failedAt[k] : k \in 1..Len(last'.failedAt)}
                          \/ CertManagerRet(last') # "failed to create istio certificate")
           /\ CertOf(i) = Absent
                => /\ Cardinality(CertWrites(last')) <= 1
                   /\ Cardinality(EventsOf(last', "CertificateCreated"))
                         = Cardinality(CertWrites(last'))

\* C19: a create reconcile that finds the certificate of its cluster existing
\* leaves the stored certificate as it is, writes no certificate, records no
\* CertificateCreated event and takes the create for a success (unless the call
\* itself fails); a certificate is created only where none exists, at most once
\* and with one event.
C19_ExistingCertificateUntouched == [][C19_Step]_vars

\* C19 witness: CertManager.TryCreate has returned success in a create reconcile
\* that wrote no certificate, the certificate being there already.
C19_Witness ==
    /\ CreateReconcile(last)
    /\ CertManagerRet(last) = "nil"
    /\ CertWrites(last) = {}
    /\ EventsOf(last, "CertificateCreated") = {}
    /\ CertOf(last.id) # Absent

\* -- C20: the propagation of the CA

\* The writes that create a MultiClusterService of the CA propagation.
CaMcsCreates(p) ==
    {k \in McsWrites(p) : /\ p.writes[k].verb = "create"
                          /\ p.writes[k].name.prefix = "ca-cert-propagation"}

\* The cluster is ready, carries the mesh label and its credential names a region.
ReadyMeshRegion(cd) ==
    /\ IsClusterDeploymentReady(cd)
    /\ IsInMesh(cd)
    /\ CreatedInKCMRegion(cd).err = "nil"
    /\ CreatedInKCMRegion(cd).region

\* C20: a MultiClusterService of the CA propagation is created only by the
\* CertManager.TryCreate call of a create reconcile, after the certificate has been
\* ensured, for a cluster that is ready, carries the mesh label and is in a region;
\* it selects the clusters labelled kcm-region-cluster: "true" that carry the
\* cluster's mesh value. For a cluster that is not ready, not in a mesh or not in
\* a region the call creates none and, the certificate ensured, returns success.
C20_CaPropagationOnlyForReadyMeshRegion ==
    /\ CaMcsCreates(last) # {}
          => /\ CreateReconcile(last)
             /\ Cardinality(CaMcsCreates(last)) = 1
             /\ ReadyMeshRegion(last.cd)
             /\ CertOf(last.id) # Absent
             /\ \A k \in CaMcsCreates(last) :
                   /\ last.writes[k].name = CaMcsNameOf[last.id]
                   /\ last.mgr = "CertManager.TryCreate"
                         \/ "RemoteSecretPropagationManager.TryCreate"
                               \in {last.calls[j] : j \in 1..Len(last.calls)}
                   /\ CaMcsOf(last.id).selector =
                         ("k0rdent.mirantis.com/kcm-region-cluster" :> "true")
                         @@ ("k0rdent.mirantis.com/istio-mesh" :> last.cd.mesh)
    /\ ( /\ CreateReconcile(last)
         /\ last.cd # Absent
         /\ ~ReadyMeshRegion(last.cd)
         /\ CreatedInKCMRegion(last.cd).err = "nil"
         /\ CertManagerRet(last) # "none"
         /\ "cert_create" \notin {last.failedAt[k] : k \in 1..Len(last.failedAt)}
         /\ "cert_region" \notin {last.failedAt[k] : k \in 1..Len(last.failedAt)} )
          => CertManagerRet(last) = "nil" /\ CaMcsCreates(last) = {}

\* C20 witness: a create reconcile of a ready mesh cluster of a region has created
\* the MultiClusterService of the CA propagation.
C20_Witness ==
    /\ CreateReconcile(last) /\ last.result = "nil"
    /\ CaMcsCreates(last) # {}
    /\ ReadyMeshRegion(last.cd)
    /\ CaMcsOf(last.id) # Absent

\* -- C21: a descriptor that exists

\* The return of a manager in a handler, "none" when it was not called.
ManagerRet(p, mgr) ==
    IF \E k \in 1..Len(p.rets) : p.rets[k].mgr = mgr
    THEN p.rets[CHOOSE k \in 1..Len(p.rets) : p.rets[k].mgr = mgr].ret
    ELSE "none"

\* The writes of a handler on the remote secret's MultiClusterService.
RsMcsWrites(p) ==
    {k \in McsWrites(p) : p.writes[k].name.prefix = "remote-secret-propagation"}

C21_Step ==
    \A i \in Ids :
        /\ (last = Idle /\ CreateReconcile(last') /\ last'.id = i)
           => /\ RsMcsOf(i) # Absent
                   => /\ hub'.mcs[RsMcsNameOf[i]] = hub.mcs[RsMcsNameOf[i]]
                      /\ RsMcsWrites(last') = {}
                      /\ EventsOf(last', "MultiClusterServiceCreated") = {}
                      /\ ManagerRet(last', "RemoteSecretPropagationManager.TryCreate")
                            \in {"none", "nil", "failed to check MultiClusterService existence"}
              /\ (RsMcsOf(i) = Absent /\ RsMcsWrites(last') # {})
                   => /\ Cardinality(RsMcsWrites(last')) = 1
                      /\ \A k \in RsMcsWrites(last') : last'.writes[k].verb = "create"
                      /\ Cardinality(EventsOf(last', "MultiClusterServiceCreated")) = 1
                      /\ hub'.mcs[RsMcsNameOf[i]].selector
                            = ("k0rdent.mirantis.com/istio-role" :> "member")
                      /\ hub'.mcs[RsMcsNameOf[i]].ref
                            = [ kind |-> "Secret", name |-> SecretNameOf[i],
                                namespace |-> IstioSystemNamespace ]
        \* whatever the step, a descriptor that exists is left as it is or deleted
        /\ RsMcsOf(i) # Absent
              => hub'.mcs[RsMcsNameOf[i]] \in {hub.mcs[RsMcsNameOf[i]], Absent}

\* C21: a create reconcile that finds the remote secret's MultiClusterService of
\* its cluster existing leaves it as it is, writes none and records no creation
\* event; where none exists it creates one, with one event, that selects the
\* clusters labelled istio-role: member and refers to the cluster's remote secret.
\* No step ever modifies an existing one.
C21_ExistingDescriptorUntouched == [][C21_Step]_vars

\* C21 witness: RemoteSecretPropagationManager.TryCreate has returned success
\* without a write, the MultiClusterService being there already.
C21_Witness ==
    /\ CreateReconcile(last)
    /\ ManagerRet(last, "RemoteSecretPropagationManager.TryCreate") = "nil"
    /\ RsMcsWrites(last) = {}
    /\ EventsOf(last, "MultiClusterServiceCreated") = {}
    /\ RsMcsOf(last.id) # Absent

\* -- C22: a remote secret that exists

\* The calls of the builder, lookups included, by their program points.
BuilderPoints ==
    {"rs_exists", "rs_region", "rs_regionname", "rs_regionobj", "rs_regionkc",
     "rs_regionsecret", "rs_kubeconfig", "b_sa", "b_tokget", "b_token", "b_tokupdate",
     "b_tokcreate", "rs_delete", "rs_create"}

C22_Step ==
    \A i \in Ids :
        ( /\ last = Idle
          /\ CreateReconcile(last') /\ last'.id = i
          /\ IsClusterDeploymentReady(last'.cd)
          /\ SecretOf(i) # Absent
          /\ "rs_exists" \notin {last'.failedAt[k] : k \in 1..Len(last'.failedAt)} )
        => /\ ManagerRet(last', "RemoteSecretManager.TryCreate") = "nil"
           /\ hub'.secret = hub.secret
           /\ target' = target
           /\ SecretWrites(last') = {} /\ TargetWrites(last') = {}
           /\ EventsOf(last', "SecretCreated") = {}
           /\ {c.pc : c \in CallsOf(StartReconcile(i), World)} \cap BuilderPoints
                 = {"rs_exists"}

\* C22: in a create reconcile (no overwrite) of a ready cluster whose remote
\* secret exists, the builder returns success after the one existence check: it
\* makes no region lookup, requests no token, writes neither the token secret
\* nor the remote secret, records no event, and leaves the secrets of the hub and
\* the target cluster as they are.
C22_ExistingSecretShortCircuits == [][C22_Step]_vars

\* C22 witness: the builder has returned success for a ready cluster without a
\* write, the remote secret being there already.
C22_Witness ==
    /\ CreateReconcile(last)
    /\ IsClusterDeploymentReady(last.cd)
    /\ ManagerRet(last, "RemoteSecretManager.TryCreate") = "nil"
    /\ SecretWrites(last) = {} /\ TargetWrites(last) = {}
    /\ SecretOf(last.id) # Absent
    /\ target[last.id].issued > 0

\* -- C23: one builder call per listed cluster

\* The builder calls of a cycle that returned an error.
FailedRets(p) == {k \in 1..Len(p.rets) : p.rets[k].ret # "nil"}

\* C23: a rotation cycle whose listing succeeded calls the builder exactly once
\* for every listed ClusterDeployment, in the order of the list, whether the
\* earlier calls failed or not, and the successes it counts and the failures
\* make up the number listed; a cycle whose listing failed calls no manager and
\* writes nothing.
C23_OneBuilderCallPerListedCluster ==
    last.op = "rotate"
        => IF last.failedAt # <<>> /\ last.failedAt[1] = "rot_list"
           THEN last.rets = <<>> /\ last.calls = <<>> /\ last.writes = <<>>
           ELSE LET listed == getIstioClusters(World)
                IN  /\ last.total = Len(listed)
                    /\ Len(last.rets) = Len(listed)
                    /\ Len(last.calls) = Len(listed)
                    /\ \A k \in 1..Len(listed) :
                          /\ last.rets[k].id = TargetOf(listed[k])
                          /\ last.rets[k].mgr = "RemoteSecretManager.TryCreate"
                    /\ last.success = Len(listed) - Cardinality(FailedRets(last))
                    /\ last.success + Cardinality(FailedRets(last)) = last.total

\* C23 witness: in a cycle over two clusters the builder failed for the first
\* and succeeded for the second.
C23_Witness ==
    /\ last.op = "rotate"
    /\ Len(last.rets) = 2
    /\ last.rets[1].ret # "nil"
    /\ last.rets[2].ret = "nil"
    /\ last.success = 1 /\ last.total = 2

\* -- C24: the delete path and a failing deletion

\* C24: a delete reconcile attempts the deletion of every derived artifact in
\* the same invocation: it calls the three deleting managers, whatever the
\* earlier ones returned.
C24_DeleteAttemptsEveryArtifact ==
    DeleteReconcile(last) => last.calls = DeleteManagers

\* -- C25: the token-data poll

\* C25: the poll reads the token secret at most 5 times, one second of waiting
\* between two reads; it returns the data as soon as a read finds both keys,
\* makes no read when the secret it was given holds both keys, and gives up
\* with the error of its last read otherwise.
C25_PollGivesUpAfterFiveReads ==
    /\ rec.reads <= 5
    /\ rec.reads >= 1 =>
          rec.slept \in {(rec.reads - 1) * tokenWaitBackoff, rec.reads * tokenWaitBackoff}
    /\ rec.pc = "op" => rec.slept = rec.reads * tokenWaitBackoff
    /\ (rec.reads >= 1 /\ tokenDataFromSecret(rec.secret.data) = "nil")
          => rec.pc = "returned" /\ rec.err = "nil"
    /\ (rec.pc = "returned" /\ rec.reads = 0)
          => rec.err = "nil" /\ tokenDataFromSecret(rec.secret.data) = "nil"
    /\ (rec.pc = "returned" /\ rec.reads >= 1)
          => rec.err = (IF rec.secret.named THEN tokenDataFromSecret(rec.secret.data)
                        ELSE "get failed")

\* -- C26: the poll and the shutdown signal

C26_Step ==
    (rec.ctx = "done" /\ rec'.ctx = "done") => rec'.reads = rec.reads

\* C26: once the context of the builder call is cancelled the poll makes no
\* further read of the token secret.
C26_CancelledPollReadsNoMore == [][C26_Step]_vars

\* -- C27: the rotation worker, its ticks and the shutdown signal

\* A step of the worker that starts a rotation cycle.
CycleStarts == rot.pc = "idle" /\ rot'.pc \notin {"idle", "stopped"}

C27_Step ==
    /\ CycleStarts => rot.ctx = "live" /\ rot' = [StartRotation EXCEPT !.had = rot'.had]
    /\ rot.pc = "stopped" => rot' = rot

\* C27: the worker starts a rotation cycle only from its select, no cycle
\* running, and never once the shutdown signal is raised; once it has returned
\* it does nothing more.
C27_NoCycleStartsAfterShutdown == [][C27_Step]_vars

\* -- C28: the age of the token in the credential

\* The hour in which the target cluster issued its k-th token.
IssuedAt(k) == Cardinality({h \in 1..Len(rot.mark) : rot.mark[h] < k})

\* The token in the remote secret of identity i.
HeldToken(i) == SecretOf(i).data[i.name].token

\* C28: with a rotation cycle every hour, whenever nothing is left to
\* reconcile the token in the remote secret of a ready member cluster was
\* issued at most TokenValidity hours ago.
C28_TokenNeverPastValidity ==
    \A i \in Ids :
        ( /\ queue = {} /\ last = Idle
          /\ hub.cd[i] # Absent
          /\ EventFilter(hub.cd[i])
          /\ IsClusterDeploymentReady(hub.cd[i])
          /\ SecretOf(i) # Absent )
        => rot.now - IssuedAt(HeldToken(i)) <= TokenValidity

\* -- C29: the three cases of the token secret

\* The calls of a handler up to the write of the token secret.
TokenPathPoints == {"rec_get", "rot_list"} \cup (BuilderPoints \ {"rs_delete", "rs_create"})

\* The handler that starts as p reaches the Get of the token secret of i, and
\* none of the calls up to the token secret has failed in q.
TokenPathTaken(p, q, i) ==
    /\ [pc |-> "b_tokget", id |-> i] \in CallsOf(p, World)
    /\ {q.failedAt[k] : k \in 1..Len(q.failedAt)} \cap TokenPathPoints = {}

\* What the builder does with the token secret of i, by case.
TokenSecretCases(i, q, over) ==
    LET creates == Cardinality(WritesOf(q, "create", "TokenSecret"))
        updates == Cardinality(WritesOf(q, "update", "TokenSecret"))
    IN  IF target[i].tokenSecret = NoToken
        THEN /\ target'[i].issued = target[i].issued + 1
             /\ target'[i].tokenSecret = target'[i].issued
             /\ creates = 1 /\ updates = 0
        ELSE IF over
        THEN /\ target'[i].issued = target[i].issued + 1
             /\ target'[i].tokenSecret = target'[i].issued
             /\ creates = 0 /\ updates = 1
        ELSE /\ target'[i] = target[i]
             /\ creates = 0 /\ updates = 0

C29_Step ==
    \A i \in Ids :
        /\ ( /\ last = Idle /\ CreateReconcile(last') /\ last'.id = i
             /\ TokenPathTaken(StartReconcile(i), last', i) )
           => TokenSecretCases(i, last', FALSE)
        /\ ( /\ last = Idle /\ last'.op = "rotate"
             /\ TokenPathTaken(StartRotation, last', i) )
           => TokenSecretCases(i, last', TRUE)

\* C29: a builder call that gets as far as the token secret requests a new
\* token and creates the secret when the secret is absent; requests a new
\* token and updates the secret in place when the secret exists and overwrite is
\* set (rotation); and leaves the secret as it is, requesting no token, when
\* the secret exists and overwrite is not set (reconcile).
C29_TokenSecretThreeCases == [][C29_Step]_vars

\* C29 witness: a rotation cycle has updated in place a token secret that a
\* builder call had created before: the second token of the cluster is in it.
C29_Witness ==
    /\ last.op = "rotate"
    /\ WritesOf(last, "update", "TokenSecret") # {}
    /\ WritesOf(last, "create", "TokenSecret") = {}
    /\ target[ID1].issued = 2
    /\ target[ID1].tokenSecret = 2

\* -- C30: the service account that is not there

\* The handler that starts as p reaches the Get of the service account of i,
\* no call having failed in q.
ServiceAccountAsked(p, q, i) ==
    /\ [pc |-> "b_sa", id |-> i] \in CallsOf(p, World)
    /\ q.failedAt = <<>>

C30_Step ==
    \A i \in Ids :
        ( /\ last = Idle
          /\ ~target[i].sa
          /\ \/ /\ CreateReconcile(last') /\ last'.id = i
                /\ ServiceAccountAsked(StartReconcile(i), last', i)
             \/ /\ last'.op = "rotate"
                /\ ServiceAccountAsked(StartRotation, last', i) )
        => /\ \E k \in 1..Len(last'.rets) :
                 /\ last'.rets[k].mgr = "RemoteSecretManager.TryCreate"
                 /\ last'.rets[k].id = i
                 /\ last'.rets[k].ret = "service account not found"
           /\ CreateReconcile(last') => last'.result = "service account not found"
           /\ target' = target
           /\ hub' = hub
           /\ last'.writes = <<>>

RegionDecided(p, q, i) ==
    /\ [pc |-> "rs_region", id |-> i] \in CallsOf(p, World)
    /\ {q.failedAt[k] : k \in 1..Len(q.failedAt)}
          \cap {"rec_get", "rot_list", "rs_exists", "rs_region"} = {}

\* The builder call for i in q returned an error.
BuilderFailed(q, i) ==
    \E k \in 1..Len(q.rets) :
        /\ q.rets[k].mgr = "RemoteSecretManager.TryCreate"
        /\ q.rets[k].id = i
        /\ q.rets[k].ret # "nil"

\* What holds of a handler p that has decided that cluster i is of a region.
RegionKubeconfigOnly(p, q, i) ==
    LET rn == GetKcmRegionClusterNameRelatedToClusterDeployment(hub.cd[i])
        pcs == {c.pc : c \in {d \in CallsOf(p, World) : d.id = i}}
    IN  /\ "rs_kubeconfig" \notin pcs
        /\ SecretWrites(q) # {} => hub.kubeconfig[KubeconfigNameOf[i]] = "region"
        /\ (rn = "" \/ rn \notin DOMAIN Regions \/ ~Regions[rn].kubeConfig)
              => /\ BuilderFailed(q, i)
                 /\ SecretWrites(q) = {}
                 /\ hub'.secret = hub.secret
                 /\ pcs \cap {"rs_regionkc", "rs_regionsecret", "b_sa", "rs_delete", "rs_create"} = {}

C31_Step ==
    \A i \in Ids :
        /\ ( /\ last = Idle /\ CreateReconcile(last') /\ last'.id = i
             /\ CreatedInKCMRegion(last'.cd).region
             /\ RegionDecided(StartReconcile(i), last', i) )
           => RegionKubeconfigOnly(StartReconcile(i), last', i)
        /\ ( /\ last = Idle /\ last'.op = "rotate"
             /\ hub.cd[i] # Absent
             /\ CreatedInKCMRegion(hub.cd[i]).region
             /\ RegionDecided(StartRotation, last', i) )
           => RegionKubeconfigOnly(StartRotation, last', i)

MinorsBelow == {<<53>>, <<50, 51>>, <<50, 51, 43>>}

C39_UnsupportedOptionsWriteNothing ==
    ( /\ rec # Idle /\ rec.op = "build" /\ rec.pc = "ret"
      /\ \/ rec.opt.Type \notin {"remote", "config"}
         \/ rec.opt.AuthType \notin {"bearer-token", "plugin"} )
    => /\ rec.ret # "nil"
       /\ target[ID1].issued = rec.issuedBefore
       /\ TargetWrites(rec) = {}

\* -- C33: the ClusterDeployment that cannot be read

C33_Step ==
    ( /\ last = Idle
      /\ last'.op = "reconcile"
      /\ last'.failedAt # <<>> /\ last'.failedAt[1] = "rec_get" )
    => /\ last'.result = "cannot read clusterDeployment"
       /\ last'.path = "none"
       /\ last'.calls = <<>> /\ last'.rets = <<>>
       /\ last'.writes = <<>> /\ last'.events = <<>>
       /\ hub' = hub /\ target' = target

\* C33: a reconcile whose Get of the ClusterDeployment fails with an error
\* other than NotFound returns that error, having taken neither the create nor
\* the delete path: it calls no manager, writes and deletes nothing, records no
\* event, and leaves the hub and the target clusters as they are.
C33_ReadErrorDoesNothing == [][C33_Step]_vars

\* C33 witness: the read failed for a deleted ClusterDeployment whose remote
\* secret and certificate are still there, and they stay.
C33_Witness ==
    /\ last.op = "reconcile"
    /\ last.result = "cannot read clusterDeployment"
    /\ hub.cd[last.id] = Absent
    /\ SecretOf(last.id) # Absent
    /\ CertOf(last.id) # Absent
    /\ last.calls = <<>>

\* -- C34: a deleted cluster and a running rotation cycle

\* C34: once the ClusterDeployment is deleted and its delete reconcile has
\* returned success, the hub holds no remote secret of that cluster, nor does
\* it in any later state, a rotation cycle that listed the cluster before its
\* deletion running or not.
C34_NoCredentialAfterDeletion ==
    \A i \in Ids :
        ( /\ hub.cd[i] = Absent
          /\ prev = [op |-> "reconcile", id |-> i, path |-> "delete", ok |-> TRUE]
          /\ rec = Idle )
        => SecretOf(i) = Absent

\* -- C35: the credential and a failed rotation

C35_Step ==
    \A i \in Ids :
        ( /\ last = Idle /\ last'.op = "rotate"
          /\ SecretOf(i) # Absent
          /\ BuilderFailed(last', i) )
        => hub'.secret[SecretNameOf[i]] # Absent

\* C35: when the builder call of a rotation cycle (overwrite) returns an error
\* for a cluster, the remote secret that cluster had before the call is still
\* on the hub after it.
C35_FailedRotationKeepsCredential == [][C35_Step]_vars

\* -- C36: the delete path and the artifacts of another cluster

\* The names under which the artifacts derived from cluster i are stored.
StoredAs(i) ==
    [ secret |-> GetRemoteSecretName(i.name, i.namespace),
      cert |-> GetCertName(i.name, i.namespace),
      rsMcs |-> GetMultiClusterServiceName(i.name, i.namespace),
      caMcs |-> GetCertNameHash(i.name, i.namespace) ]

\* The remote secret on the hub that was built for cluster y.
BuiltFor(y) ==
    LET n == StoredAs(y).secret
    IN  /\ hub.secret[n] # Absent
        /\ DOMAIN hub.secret[n].data = {y.name}

C36_Step ==
    \A x \in Ids, y \in Ids :
        ( /\ x # y
          /\ last = Idle /\ DeleteReconcile(last') /\ last'.id = x
          /\ hub.cd[y] # Absent )
        => /\ BuiltFor(y) => hub'.secret[StoredAs(y).secret] = hub.secret[StoredAs(y).secret]
           /\ hub'.cert[StoredAs(y).cert] = hub.cert[StoredAs(y).cert]
           /\ hub'.mcs[StoredAs(y).rsMcs] = hub.mcs[StoredAs(y).rsMcs]
           /\ hub'.mcs[StoredAs(y).caMcs] = hub.mcs[StoredAs(y).caMcs]

\* C36: the delete reconcile of one cluster leaves on the hub the remote secret
\* built for another cluster that still exists, and the certificate and the
\* MultiClusterServices stored under the names derived from that other cluster.
C36_DeleteSparesOtherClusters == [][C36_Step]_vars

\* -- C37: what the MultiClusterServices refer to

\* C37: on the hub, the MultiClusterService of a cluster's remote secret refers to
\* the secret by the name and namespace under which the builder creates the
\* cluster's remote secret, and the MultiClusterService of its CA refers to the
\* secret named by the secretName of the cluster's CA certificate, in the
\* certificate's namespace; both namespaces are the Istio system namespace, and a
\* remote secret or certificate of the cluster on the hub is stored under that name.
C37_DescriptorsReferToSources ==
    \A i \in Ids :
        LET built == BuiltSecret(i, NoToken)
            cert == generateClusterCACertificate(i)
        IN  /\ RsMcsOf(i) # Absent
                => /\ RsMcsOf(i).ref.kind = "Secret"
                   /\ RsMcsOf(i).ref.name = built.name
                   /\ RsMcsOf(i).ref.namespace = built.namespace
                   /\ built.namespace = IstioSystemNamespace
                   /\ RsMcsOf(i).ref.name = SecretNameOf[i]
            /\ CaMcsOf(i) # Absent
                => /\ CaMcsOf(i).ref.kind = "Secret"
                   /\ CaMcsOf(i).ref.name = cert.secretName
                   /\ CaMcsOf(i).ref.namespace = cert.namespace
                   /\ cert.namespace = IstioSystemNamespace
                   /\ CertOf(i) # Absent
                        => /\ CertOf(i).secretName = CaMcsOf(i).ref.name
                           /\ CertOf(i).namespace = CaMcsOf(i).ref.namespace

\* C37 witness: a cluster has its remote secret, its certificate and both of its
\* MultiClusterServices on the hub.
C37_Witness ==
    \E i \in Ids :
        /\ SecretOf(i) # Absent /\ CertOf(i) # Absent
        /\ RsMcsOf(i) # Absent /\ CaMcsOf(i) # Absent

\* -- C38: the region name and the Credential the decision was made on

\* C38: when the builder, having decided on the Credential it read that the
\* cluster was created in a region, has resolved the region name, that name is
\* not empty and is the region of that Credential.
C38_RegionOfTheDecidingCredential ==
    rec.resolved
        => /\ rec.basis # Absent
           /\ rec.basis.name = rec.cd.credential
           /\ rec.basis.namespace = DefaultKCMSystemNamespace
           /\ rec.regionName # ""
           /\ rec.regionName = rec.basis.region

====
